---- MODULE Spec2Model ----
(***************************************************************************)
(* Row encoding (crates/polars-row/src/encode.rs): convert_columns_amortized *)
(* as a state machine.  Pass 1 (get_encoder) plans one column per step and   *)
(* accumulates the row widths, then the offsets are computed and the buffer  *)
(* is allocated, pass 2 (encode_array) materializes one column per step,     *)
(* and set_len / the assignment to *rows end the call.                       *)
(*                                                                           *)
(* Arrays are records of one shape:                                          *)
(*   dtype     the ArrowDataType tag                                         *)
(*   len       number of rows                                                *)
(*   hv        TRUE iff the array has a validity bitmap                      *)
(*   validity  the bitmap (<<>> when hv is FALSE)                            *)
(*   values    primitive values (booleans as 0/1, category codes)            *)
(*   bins      byte strings of a Utf8 / Binary array                         *)
(*   offsets   list offsets (len + 1 entries)                                *)
(*   width     fixed-size-list width                                         *)
(*   children  child array of a list / fixed-size-list, fields of a struct   *)
(* List arrays of the inputs are normalized: their offsets start at 0 and    *)
(* end at the length of the child array; null list rows may span children.   *)
(***************************************************************************)
EXTENDS Integers, Sequences, FiniteSets, TLC

\* ------------------------------------------------------------------ bounds
MaxRows == 2
MaxChildLen == 2
MaxCols == 2

\* ------------------------------------------------------------- sequences
Min(a, b) == IF a < b THEN a ELSE b
Max(a, b) == IF a > b THEN a ELSE b

RECURSIVE SumSeq(_)
SumSeq(s) == IF s = <<>> THEN 0 ELSE Head(s) + SumSeq(Tail(s))

RECURSIVE Concat(_)
Concat(ss) == IF ss = <<>> THEN <<>> ELSE Head(ss) \o Concat(Tail(ss))

Repeat(x, n) == [i \in 1..n |-> x]

\* A function on 1..n as a tuple
Vec(f) == f \o <<>>

\* ---------------------------------------------------- RowEncodingOptions
\* Options are the three flags DESCENDING, NULLS_LAST, NO_ORDER.
Options == [descending : BOOLEAN, nulls_last : BOOLEAN, no_order : BOOLEAN]

DefaultOptions == [descending |-> FALSE, nulls_last |-> FALSE, no_order |-> TRUE]

is_ordered(opt) == ~opt.no_order

null_sentinel(opt) == IF opt.nulls_last THEN 255 ELSE 0

bool_true_sentinel(opt) == IF opt.descending THEN 255 - 3 ELSE 3

bool_false_sentinel(opt) == IF opt.descending THEN 255 - 2 ELSE 2

list_null_sentinel(opt) == null_sentinel(opt)

list_continuation_token(opt) == IF opt.descending THEN 255 - 254 ELSE 254

list_termination_token(opt) == 255 - list_continuation_token(opt)

\* Nested values place their nulls by the direction alone.
into_nested(opt) == [opt EXCEPT !.nulls_last = opt.descending]

\* ------------------------------------------------------ RowEncodingContext
NoDict == [kind |-> "None", is_enum |-> FALSE, mapping |-> <<>>, dicts |-> <<>>]

CategoricalDict(is_enum, mapping) ==
  [kind |-> "Categorical", is_enum |-> is_enum, mapping |-> mapping, dicts |-> <<>>]

StructDict(dicts) ==
  [kind |-> "Struct", is_enum |-> FALSE, mapping |-> <<>>, dicts |-> dicts]

\* ------------------------------------------------------------------ arrays
Arr(dtype, len, hv, validity, values, bins, offsets, width, children) ==
  [dtype |-> dtype, len |-> len, hv |-> hv, validity |-> validity,
   values |-> values, bins |-> bins, offsets |-> offsets, width |-> width,
   children |-> children]

IsValid(array, i) == ~array.hv \/ array.validity[i]

UnsignedTypes == {"UInt8", "UInt16", "UInt32", "UInt64"}
SignedTypes == {"Int8", "Int16", "Int32", "Int64"}
NumericTypes == UnsignedTypes \cup SignedTypes
StrTypes == {"Utf8", "LargeUtf8", "Utf8View"}
BinTypes == {"Binary", "LargeBinary", "BinaryView"}
ListTypes == {"List", "LargeList"}
\* Types get_encoder rejects (temporal and other non-physical types).
UnsupportedTypes == {"Date32", "Timestamp", "Dictionary", "Decimal256", "Union", "Map"}

\* size_of::<T>() of the numeric types
NativeSize(dtype) ==
  CASE dtype \in {"UInt8", "Int8"} -> 1
    [] dtype \in {"UInt16", "Int16"} -> 2
    [] dtype \in {"UInt32", "Int32"} -> 4
    [] dtype \in {"UInt64", "Int64"} -> 8

\* FixedLengthEncoding::ENCODED_LEN: one validity byte and the value
ENCODED_LEN(dtype) == 1 + NativeSize(dtype)

\* ---------------------------------------------------------------- RowWidths
\* The width accumulator, kept as one width per row.
RowWidthsNew(num_rows) == Repeat(0, num_rows)

push_constant(row_widths, w) == [i \in 1..Len(row_widths) |-> row_widths[i] + w]

push_iter(row_widths, lengths) ==
  [i \in 1..Len(row_widths) |-> row_widths[i] + lengths[i]]

push(row_widths, other) == [i \in 1..Len(row_widths) |-> row_widths[i] + other[i]]

collapse_chunks(row_widths, width, n) ==
  [i \in 1..n |-> SumSeq([j \in 1..width |-> row_widths[(i - 1) * width + j]])]

RECURSIVE PrefixSums(_, _)
PrefixSums(widths, start) ==
  IF widths = <<>> THEN <<>>
  ELSE <<start>> \o PrefixSums(Tail(widths), start + Head(widths))

\* Appends the exclusive prefix sum of the widths to out.
extend_with_offsets(row_widths, out) == out \o PrefixSums(row_widths, 0)

RowWidthsSum(row_widths) == SumSeq(row_widths)

\* --------------------------------------------------- leaf width formulas
\* variable::utf8::len_from_item
utf8_len_from_item(a, is_valid, opt) == IF is_valid THEN 1 + a ELSE 1

BLOCK_SIZE == 32

CeilDiv(a, b) == (a + b - 1) \div b

\* variable::binary::encoded_len_from_len
encoded_len_from_len(a, is_valid, opt) ==
  IF is_valid THEN 1 + CeilDiv(a, BLOCK_SIZE) * (BLOCK_SIZE + 1) ELSE 1

\* variable::no_order::len_from_item
no_order_len_from_item(a, is_valid, opt) ==
  IF ~is_valid THEN 1 ELSE IF a < 254 THEN 1 + a ELSE 5 + a

\* ------------------------------------------------------ leaf byte encoders
Invert(bytes) == [i \in 1..Len(bytes) |-> 255 - bytes[i]]

\* fixed::boolean::encode_bool, one item
encode_bool_item(v, is_valid, opt) ==
  IF ~is_valid THEN <<null_sentinel(opt)>>
  ELSE IF v = 1 THEN <<bool_true_sentinel(opt)>> ELSE <<bool_false_sentinel(opt)>>

\* Big-endian two's complement bytes of v in n bytes.
RECURSIVE BigEndian(_, _)
BigEndian(v, n) ==
  IF n = 0 THEN <<>> ELSE BigEndian(v \div 256, n - 1) \o <<v % 256>>

\* FixedLengthEncoding::encode: big-endian, sign bit flipped for signed types
numeric_encode_value(dtype, v) ==
  LET be == BigEndian(v, NativeSize(dtype))
  IN  IF dtype \in SignedTypes THEN [be EXCEPT ![1] = (be[1] + 128) % 256] ELSE be

\* fixed::numeric::encode, one item: a validity byte, then the value
numeric_encode_item(dtype, v, is_valid, opt) ==
  IF ~is_valid THEN <<null_sentinel(opt)>> \o Repeat(0, NativeSize(dtype))
  ELSE LET e == numeric_encode_value(dtype, v)
       IN  <<1>> \o (IF opt.descending THEN Invert(e) ELSE e)

\* variable::utf8::encode_str, one item: every byte + 2, then the terminator 1
encode_str_item(s, is_valid, opt) ==
  IF ~is_valid THEN <<null_sentinel(opt)>>
  ELSE LET e == [i \in 1..Len(s) |-> s[i] + 2] \o <<1>>
       IN  IF opt.descending THEN Invert(e) ELSE e

\* One block of the binary encoding: BLOCK_SIZE bytes (zero padded) and a
\* trailing byte, 255 when another block follows, else the bytes used.
RECURSIVE binary_blocks(_)
binary_blocks(s) ==
  IF Len(s) > BLOCK_SIZE
  THEN SubSeq(s, 1, BLOCK_SIZE) \o <<255>> \o binary_blocks(SubSeq(s, BLOCK_SIZE + 1, Len(s)))
  ELSE s \o Repeat(0, BLOCK_SIZE - Len(s)) \o <<Len(s)>>

\* variable::binary::encode_iter, one item
encode_bin_item(s, is_valid, opt) ==
  IF ~is_valid THEN <<null_sentinel(opt)>>
  ELSE LET e == IF s = <<>> THEN <<1>> ELSE <<2>> \o binary_blocks(s)
       IN  IF opt.descending THEN Invert(e) ELSE e

\* variable::no_order::encode_variable_no_order, one item
encode_variable_no_order_item(s, is_valid, opt) ==
  IF ~is_valid THEN <<255>>
  ELSE IF Len(s) < 254 THEN <<Len(s)>> \o s
  ELSE <<254>> \o <<Len(s) % 256, (Len(s) \div 256) % 256, 0, 0>> \o s

\* ------------------------------------------------------------ fixed_size
NoSize == -1
Unreachable == -2

RECURSIVE fixed_size(_, _, _)
RECURSIVE fixed_size_fields(_, _, _, _)

\* Sum of the fixed sizes of the first n fields (zip of fields and dicts);
\* NoSize as soon as a field has none.
fixed_size_fields(fields, opt, dicts, n) ==
  IF n = 0 THEN 0
  ELSE LET rest == fixed_size_fields(fields, opt, dicts, n - 1)
       IN  IF rest < 0 THEN rest
           ELSE LET f == fixed_size(fields[n], opt, dicts[n])
                IN  IF f < 0 THEN f ELSE rest + f

\* fixed_size that counts the child of a fixed-size list once, whatever the width
fixed_size_one_child(array, opt, dict) ==
  IF dict.kind = "Categorical" /\ ~dict.is_enum /\ is_ordered(opt) THEN NoSize
  ELSE
    CASE array.dtype = "Null" -> 0
      [] array.dtype = "Boolean" -> 1
      [] array.dtype \in NumericTypes -> ENCODED_LEN(array.dtype)
      [] array.dtype = "FixedSizeList" ->
           LET c == fixed_size(array.children[1], opt, dict)
           IN  IF c < 0 THEN c ELSE 1 + c
      [] array.dtype = "Struct" ->
           CASE dict.kind = "None" ->
                  LET s == fixed_size_fields(array.children, opt,
                                             Repeat(NoDict, Len(array.children)),
                                             Len(array.children))
                  IN  IF s < 0 THEN s ELSE 1 + s
             [] dict.kind = "Struct" ->
                  LET s == fixed_size_fields(array.children, opt, dict.dicts,
                                             Min(Len(array.children), Len(dict.dicts)))
                  IN  IF s < 0 THEN s ELSE 1 + s
             [] OTHER -> Unreachable
      [] OTHER -> NoSize

fixed_size(array, opt, dict) ==
  IF dict.kind = "Categorical" /\ ~dict.is_enum /\ is_ordered(opt) THEN NoSize
  ELSE
    CASE array.dtype = "Null" -> 0
      [] array.dtype = "Boolean" -> 1
      [] array.dtype \in NumericTypes -> ENCODED_LEN(array.dtype)
      [] array.dtype = "FixedSizeList" ->
           LET c == fixed_size(array.children[1], opt, dict)
           IN  IF c < 0 THEN c ELSE 1 + array.width * c
      [] array.dtype = "Struct" ->
           CASE dict.kind = "None" ->
                  LET s == fixed_size_fields(array.children, opt,
                                             Repeat(NoDict, Len(array.children)),
                                             Len(array.children))
                  IN  IF s < 0 THEN s ELSE 1 + s
             [] dict.kind = "Struct" ->
                  LET s == fixed_size_fields(array.children, opt, dict.dicts,
                                             Min(Len(array.children), Len(dict.dicts)))
                  IN  IF s < 0 THEN s ELSE 1 + s
             [] OTHER -> Unreachable
      [] OTHER -> NoSize

\* ----------------------------------------------------------------- Encoder
Encoder(array, state, nested, width, nested_row_widths) ==
  [array |-> array, state |-> state, nested |-> nested, width |-> width,
   nested_row_widths |-> nested_row_widths]

LeafEncoder(array) == Encoder(array, "None", <<>>, 0, <<>>)

\* What get_encoder leaves behind: the plan, the width accumulator, the
\* running masked-out maximum, and whether it panicked.
Planned(encoder, row_widths, masked_out_max_width) ==
  [encoder |-> encoder, row_widths |-> row_widths,
   masked_out_max_width |-> masked_out_max_width, panic |-> FALSE]

\* PlanPanic that returns a leaf plan instead of panicking
PlanPanicIgnored(array, row_widths, masked_out_max_width) ==
  [encoder |-> LeafEncoder(array), row_widths |-> row_widths,
   masked_out_max_width |-> masked_out_max_width, panic |-> FALSE]

PlanPanic(array, row_widths, masked_out_max_width) ==
  [encoder |-> LeafEncoder(array), row_widths |-> row_widths,
   masked_out_max_width |-> masked_out_max_width, panic |-> TRUE]

SetMax(S) == CHOOSE m \in S : \A x \in S : x <= m

\* ---------------------------------------------------- *_num_column_bytes
biniter_num_column_bytes(array, iter, opt, row_widths) ==
  push_iter(row_widths,
            [i \in 1..array.len |->
               IF opt.no_order
               THEN no_order_len_from_item(iter[i], IsValid(array, i), opt)
               ELSE encoded_len_from_len(iter[i], IsValid(array, i), opt)])

striter_num_column_bytes(array, iter, opt, row_widths) ==
  push_iter(row_widths,
            [i \in 1..array.len |->
               IF opt.no_order
               THEN no_order_len_from_item(iter[i], IsValid(array, i), opt)
               ELSE utf8_len_from_item(iter[i], IsValid(array, i), opt)])

\* offset_and_length_iter of a list array, row i (1-based)
ListOffset(array, i) == array.offsets[i]
ListLength(array, i) == array.offsets[i + 1] - array.offsets[i]

\* The child elements (1-based indices) of list row i
ListElems(array, i) == (ListOffset(array, i) + 1)..(ListOffset(array, i) + ListLength(array, i))

\* list_row_width with two bytes planned per continuation token
list_row_width_two_tokens(array, list_row_widths, i) ==
  IF ~IsValid(array, i) THEN 1
  ELSE 1 + 2 * ListLength(array, i)
         + SumSeq([j \in 1..ListLength(array, i) |-> list_row_widths[ListOffset(array, i) + j]])

\* Width of list row i from the child widths: 1 for a null row, else one
\* token per element, the elements, and the terminator.
list_row_width(array, list_row_widths, i) ==
  IF ~IsValid(array, i) THEN 1
  ELSE 1 + ListLength(array, i)
         + SumSeq([j \in 1..ListLength(array, i) |-> list_row_widths[ListOffset(array, i) + j]])

\* list_masked_out_max_width that reserves nothing for the children of null rows
list_masked_out_max_width_none(array, list_row_widths, masked_out_max_width) ==
  masked_out_max_width

\* The masked-out maximum after the rows of a list: the child widths under
\* null rows are folded in.
list_masked_out_max_width(array, list_row_widths, masked_out_max_width) ==
  SetMax({masked_out_max_width} \cup
         {list_row_widths[j] : j \in UNION {ListElems(array, i) :
                                     i \in {r \in 1..array.len : ~IsValid(array, r)}}})

\* ------------------------------------------------------------ get_encoder
RECURSIVE get_encoder(_, _, _, _, _)
RECURSIVE get_encoder_fields(_, _, _, _, _, _, _)
RECURSIVE list_num_column_bytes(_, _, _, _, _)

\* The fields of a struct planned in order.  fresh: every field gets a new
\* throw-away accumulator (fast path); otherwise the fields add to row_widths.
get_encoder_fields(fields, opt, dicts, row_widths, masked_out_max_width, fresh, n) ==
  IF n = 0 THEN [encoders |-> <<>>, row_widths |-> row_widths,
                 masked_out_max_width |-> masked_out_max_width, panic |-> FALSE]
  ELSE LET before == get_encoder_fields(fields, opt, dicts, row_widths,
                                        masked_out_max_width, fresh, n - 1)
       IN  IF before.panic THEN before
           ELSE LET r == get_encoder(fields[n], opt, dicts[n],
                                     IF fresh THEN RowWidthsNew(Len(row_widths))
                                     ELSE before.row_widths,
                                     before.masked_out_max_width)
                IN  [encoders |-> Append(before.encoders, r.encoder),
                     row_widths |-> IF fresh THEN before.row_widths ELSE r.row_widths,
                     masked_out_max_width |-> r.masked_out_max_width,
                     panic |-> r.panic]

\* list_num_column_bytes that plans the spanned children into null rows too
list_num_column_bytes_null_spans(array, opt, dicts, row_widths, masked_out_max_width) ==
  LET values == array.children[1]
      r == get_encoder(values, into_nested(opt), dicts, RowWidthsNew(values.len),
                       masked_out_max_width)
      list_row_widths == r.row_widths
  IN  IF r.panic THEN PlanPanic(array, row_widths, r.masked_out_max_width)
      ELSE [encoder |-> Encoder(array, "List", <<r.encoder>>, 0, list_row_widths),
            row_widths |-> push_iter(row_widths,
                             [i \in 1..array.len |->
                                1 + ListLength(array, i)
                                  + SumSeq([j \in 1..ListLength(array, i) |->
                                              list_row_widths[ListOffset(array, i) + j]])]),
            masked_out_max_width |->
              IF array.hv
              THEN list_masked_out_max_width(array, list_row_widths, r.masked_out_max_width)
              ELSE r.masked_out_max_width,
            panic |-> FALSE]

list_num_column_bytes(array, opt, dicts, row_widths, masked_out_max_width) ==
  LET values == array.children[1]
      r == get_encoder(values, into_nested(opt), dicts, RowWidthsNew(values.len),
                       masked_out_max_width)
      list_row_widths == r.row_widths
  IN  IF r.panic THEN PlanPanic(array, row_widths, r.masked_out_max_width)
      ELSE [encoder |-> Encoder(array, "List", <<r.encoder>>, 0, list_row_widths),
            row_widths |-> push_iter(row_widths,
                             [i \in 1..array.len |-> list_row_width(array, list_row_widths, i)]),
            masked_out_max_width |->
              IF array.hv
              THEN list_masked_out_max_width(array, list_row_widths, r.masked_out_max_width)
              ELSE r.masked_out_max_width,
            panic |-> FALSE]

\* Lengths of the strings the category codes map to (0 when unmapped)
CatLens(array, ctx) ==
  [i \in 1..array.len |->
     IF array.values[i] + 1 \in DOMAIN ctx.mapping
     THEN Len(ctx.mapping[array.values[i] + 1]) ELSE 0]

BinLens(array) == [i \in 1..array.len |-> Len(array.bins[i])]

\* Fast path of get_encoder: the column has a fixed size encoding
get_encoder_fixed(array, opt, dict, row_widths, masked_out_max_width, size) ==
  LET row_widths1 == push_constant(row_widths, size)
  IN  CASE array.dtype = "FixedSizeList" ->
             LET r == get_encoder(array.children[1], into_nested(opt), dict,
                                  RowWidthsNew(array.children[1].len), masked_out_max_width)
             IN  IF r.panic THEN PlanPanic(array, row_widths1, r.masked_out_max_width)
                 ELSE Planned(Encoder(array, "FixedSizeList", <<r.encoder>>, array.width,
                                      r.row_widths),
                              row_widths1, r.masked_out_max_width)
        [] array.dtype = "Struct" ->
             CASE dict.kind = "None" ->
                    LET r == get_encoder_fields(array.children, into_nested(opt),
                                                Repeat(NoDict, Len(array.children)),
                                                row_widths1, masked_out_max_width, TRUE,
                                                Len(array.children))
                    IN  IF r.panic THEN PlanPanic(array, row_widths1, r.masked_out_max_width)
                        ELSE Planned(Encoder(array, "Struct", r.encoders, 0, <<>>),
                                     row_widths1, r.masked_out_max_width)
               [] dict.kind = "Struct" ->
                    LET r == get_encoder_fields(array.children, opt, dict.dicts,
                                                row_widths1, masked_out_max_width, TRUE,
                                                Min(Len(array.children), Len(dict.dicts)))
                    IN  IF r.panic THEN PlanPanic(array, row_widths1, r.masked_out_max_width)
                        ELSE Planned(Encoder(array, "Struct", r.encoders, 0, <<>>),
                                     row_widths1, r.masked_out_max_width)
               [] OTHER -> PlanPanic(array, row_widths1, masked_out_max_width)
        [] OTHER -> Planned(LeafEncoder(array), row_widths1, masked_out_max_width)

\* get_encoder_general that plans two validity bytes per fixed-size-list row
get_encoder_general_fsl_wide(array, opt, dict, row_widths, masked_out_max_width) ==
  CASE array.dtype = "FixedSizeList" ->
         LET r == get_encoder(array.children[1], into_nested(opt), dict,
                              RowWidthsNew(array.children[1].len), masked_out_max_width)
             fsl_row_widths ==
               push_constant(collapse_chunks(r.row_widths, array.width, array.len), 2)
         IN  IF r.panic THEN PlanPanic(array, row_widths, r.masked_out_max_width)
             ELSE Planned(Encoder(array, "FixedSizeList", <<r.encoder>>, array.width,
                                  r.row_widths),
                          push(row_widths, fsl_row_widths), r.masked_out_max_width)
    [] array.dtype = "Struct" ->
         LET row_widths1 == push_constant(row_widths, 1)
         IN  CASE dict.kind \in {"None", "Struct"} ->
                    LET r == get_encoder_fields(
                               array.children, into_nested(opt),
                               IF dict.kind = "None"
                               THEN Repeat(NoDict, Len(array.children)) ELSE dict.dicts,
                               row_widths1, masked_out_max_width, FALSE,
                               IF dict.kind = "None" THEN Len(array.children)
                               ELSE Min(Len(array.children), Len(dict.dicts)))
                    IN  IF r.panic THEN PlanPanic(array, r.row_widths, r.masked_out_max_width)
                        ELSE Planned(Encoder(array, "Struct", r.encoders, 0, <<>>),
                                     r.row_widths, r.masked_out_max_width)
               [] OTHER -> PlanPanic(array, row_widths1, masked_out_max_width)
    [] array.dtype \in ListTypes ->
         list_num_column_bytes(array, opt, dict, row_widths, masked_out_max_width)
    [] array.dtype \in BinTypes ->
         Planned(LeafEncoder(array),
                 biniter_num_column_bytes(array, BinLens(array), opt, row_widths),
                 masked_out_max_width)
    [] array.dtype \in StrTypes ->
         Planned(LeafEncoder(array),
                 striter_num_column_bytes(array, BinLens(array), opt, row_widths),
                 masked_out_max_width)
    [] OTHER -> PlanPanic(array, row_widths, masked_out_max_width)

\* General path of get_encoder, after the categorical path
get_encoder_general(array, opt, dict, row_widths, masked_out_max_width) ==
  CASE array.dtype = "FixedSizeList" ->
         LET r == get_encoder(array.children[1], into_nested(opt), dict,
                              RowWidthsNew(array.children[1].len), masked_out_max_width)
             fsl_row_widths ==
               push_constant(collapse_chunks(r.row_widths, array.width, array.len), 1)
         IN  IF r.panic THEN PlanPanic(array, row_widths, r.masked_out_max_width)
             ELSE Planned(Encoder(array, "FixedSizeList", <<r.encoder>>, array.width,
                                  r.row_widths),
                          push(row_widths, fsl_row_widths), r.masked_out_max_width)
    [] array.dtype = "Struct" ->
         LET row_widths1 == push_constant(row_widths, 1)
         IN  CASE dict.kind \in {"None", "Struct"} ->
                    LET r == get_encoder_fields(
                               array.children, into_nested(opt),
                               IF dict.kind = "None"
                               THEN Repeat(NoDict, Len(array.children)) ELSE dict.dicts,
                               row_widths1, masked_out_max_width, FALSE,
                               IF dict.kind = "None" THEN Len(array.children)
                               ELSE Min(Len(array.children), Len(dict.dicts)))
                    IN  IF r.panic THEN PlanPanic(array, r.row_widths, r.masked_out_max_width)
                        ELSE Planned(Encoder(array, "Struct", r.encoders, 0, <<>>),
                                     r.row_widths, r.masked_out_max_width)
               [] OTHER -> PlanPanic(array, row_widths1, masked_out_max_width)
    [] array.dtype \in ListTypes ->
         list_num_column_bytes(array, opt, dict, row_widths, masked_out_max_width)
    [] array.dtype \in BinTypes ->
         Planned(LeafEncoder(array),
                 biniter_num_column_bytes(array, BinLens(array), opt, row_widths),
                 masked_out_max_width)
    [] array.dtype \in StrTypes ->
         Planned(LeafEncoder(array),
                 striter_num_column_bytes(array, BinLens(array), opt, row_widths),
                 masked_out_max_width)
    [] OTHER -> PlanPanic(array, row_widths, masked_out_max_width)

get_encoder(array, opt, dict, row_widths, masked_out_max_width) ==
  LET size == fixed_size(array, opt, dict)
  IN  IF size = Unreachable THEN PlanPanic(array, row_widths, masked_out_max_width)
      ELSE IF size # NoSize
      THEN get_encoder_fixed(array, opt, dict, row_widths, masked_out_max_width, size)
      ELSE IF dict.kind = "Categorical" /\ array.dtype \in {"UInt8", "UInt16", "UInt32"}
      THEN \* assert!(opt.is_ordered() && !ctx.is_enum)
           IF is_ordered(opt) /\ ~dict.is_enum
           THEN Planned(LeafEncoder(array),
                        striter_num_column_bytes(array, CatLens(array, dict), opt, row_widths),
                        masked_out_max_width)
           ELSE PlanPanic(array, row_widths, masked_out_max_width)
      ELSE get_encoder_general(array, opt, dict, row_widths, masked_out_max_width)

\* ----------------------------------------------------------- materializer
\* A write is <<position, bytes>>: the bytes stored from the 0-based buffer
\* index position on.
WritesAt(pos, bytes) == <<pos, bytes>>

\* What an encoder leaves behind: the writes it made (in order), the
\* advanced cursors, the nested_offsets scratch, and whether it panicked.
Encoded(writes, offsets, nested_offsets) ==
  [writes |-> writes, offsets |-> offsets, nested_offsets |-> nested_offsets,
   panic |-> FALSE]

EncodePanic(writes, offsets, nested_offsets) ==
  [writes |-> writes, offsets |-> offsets, nested_offsets |-> nested_offsets,
   panic |-> TRUE]

\* EncodeItems that writes the items and leaves the cursors where they were
EncodeItemsNoAdvance(items, offsets) ==
  LET n == Min(Len(items), Len(offsets))
  IN  [writes |-> Vec([i \in 1..n |-> WritesAt(offsets[i], items[i])]),
       offsets |-> offsets]

\* A leaf encoder: row i (zip of the cursors and the items) writes its item's
\* bytes at its cursor and advances the cursor by their number.
EncodeItems(items, offsets) ==
  LET n == Min(Len(items), Len(offsets))
  IN  [writes |-> Vec([i \in 1..n |-> WritesAt(offsets[i], items[i])]),
       offsets |-> Vec([i \in 1..Len(offsets) |->
                          IF i <= n THEN offsets[i] + Len(items[i]) ELSE offsets[i]])]

\* encode_strs that encodes every string as for an ascending key
encode_strs_ascending(array, opt) ==
  [i \in 1..array.len |->
     IF opt.no_order
     THEN encode_variable_no_order_item(array.bins[i], IsValid(array, i), opt)
     ELSE encode_str_item(array.bins[i], IsValid(array, i),
                          [opt EXCEPT !.descending = FALSE])]

\* encode_strs: items of a string array
encode_strs(array, opt) ==
  [i \in 1..array.len |->
     IF opt.no_order
     THEN encode_variable_no_order_item(array.bins[i], IsValid(array, i), opt)
     ELSE encode_str_item(array.bins[i], IsValid(array, i), opt)]

\* encode_bins: items of a binary array
encode_bins(array, opt) ==
  [i \in 1..array.len |->
     IF opt.no_order
     THEN encode_variable_no_order_item(array.bins[i], IsValid(array, i), opt)
     ELSE encode_bin_item(array.bins[i], IsValid(array, i), opt)]

numeric_encode(array, opt) ==
  [i \in 1..array.len |->
     numeric_encode_item(array.dtype, array.values[i], IsValid(array, i), opt)]

\* cat_to_str_unchecked: the string of a code (the empty string stands for
\* whatever an unmapped code yields)
CatStr(ctx, cat) == IF cat + 1 \in DOMAIN ctx.mapping THEN ctx.mapping[cat + 1] ELSE <<>>

\* encode_cat_array that always writes the physical code
encode_cat_array_physical(keys, opt, ctx) == numeric_encode(keys, opt)

\* encode_cat_array: the physical code, or the mapped string
encode_cat_array(keys, opt, ctx) ==
  IF ctx.is_enum \/ ~is_ordered(opt)
  THEN numeric_encode(keys, opt)
  ELSE [i \in 1..keys.len |->
          encode_str_item(CatStr(ctx, keys.values[i]), IsValid(keys, i), opt)]

\* encode_flat_array
encode_flat_array(array, opt, dict, offsets, nested_offsets) ==
  LET Done(items) == LET e == EncodeItems(items, offsets)
                     IN  Encoded(e.writes, e.offsets, nested_offsets)
  IN  IF dict.kind = "Categorical"
      THEN IF array.dtype \in {"UInt8", "UInt16", "UInt32"}
           THEN Done(encode_cat_array(array, opt, dict))
           ELSE EncodePanic(<<>>, offsets, nested_offsets)
      ELSE CASE array.dtype = "Null" -> Encoded(<<>>, offsets, nested_offsets)
             [] array.dtype = "Boolean" ->
                  Done([i \in 1..array.len |->
                          encode_bool_item(array.values[i], IsValid(array, i), opt)])
             [] array.dtype \in NumericTypes -> Done(numeric_encode(array, opt))
             [] array.dtype \in BinTypes -> Done(encode_bins(array, opt))
             [] array.dtype \in StrTypes -> Done(encode_strs(array, opt))
             [] OTHER -> EncodePanic(<<>>, offsets, nested_offsets)

\* encode_validity that leaves the cursors where they were
encode_validity_no_advance(array, opt, row_starts) ==
  LET n == IF array.hv THEN Min(Len(row_starts), Len(array.validity)) ELSE Len(row_starts)
  IN  [writes |-> Vec([i \in 1..n |->
                         WritesAt(row_starts[i],
                                  <<IF IsValid(array, i) THEN 1 ELSE null_sentinel(opt)>>)]),
       offsets |-> row_starts]

\* encode_validity: one byte per row (zip of the cursors and the bitmap)
encode_validity(array, opt, row_starts) ==
  LET n == IF array.hv THEN Min(Len(row_starts), Len(array.validity)) ELSE Len(row_starts)
  IN  [writes |-> Vec([i \in 1..n |->
                         WritesAt(row_starts[i],
                                  <<IF IsValid(array, i) THEN 1 ELSE null_sentinel(opt)>>)]),
       offsets |-> Vec([i \in 1..Len(row_starts) |->
                          IF i <= n THEN row_starts[i] + 1 ELSE row_starts[i]])]

\* Cursor of element j (1-based within the row) of a list row starting at
\* start: after the tokens and elements before it.
ListElemStart(array, nested_row_widths, i, start, j) ==
  start + (j - 1)
    + SumSeq([t \in 1..(j - 1) |-> nested_row_widths[ListOffset(array, i) + t]])

\* ListRow with the continuation and termination tokens exchanged
ListRowTokensSwapped(array, nested_row_widths, opt, i, start, masked_out_write_offset) ==
  IF ~IsValid(array, i)
  THEN [writes |-> <<WritesAt(start, <<list_null_sentinel(opt)>>)>>,
        offset |-> start + 1,
        nested |-> Repeat(masked_out_write_offset, ListLength(array, i))]
  ELSE LET n == ListLength(array, i)
           starts == Vec([j \in 1..(n + 1) |->
                            ListElemStart(array, nested_row_widths, i, start, j)])
           end == starts[n + 1]
       IN  [writes |->
              [j \in 1..n |-> WritesAt(starts[j], <<list_termination_token(opt)>>)]
              \o <<WritesAt(end, <<list_continuation_token(opt)>>)>>,
            offset |-> end + 1,
            nested |-> Vec([j \in 1..n |-> starts[j] + 1])]

\* The list loop for row i: its writes, its advanced cursor, and the entries
\* it appends to nested_offsets.
ListRow(array, nested_row_widths, opt, i, start, masked_out_write_offset) ==
  IF ~IsValid(array, i)
  THEN [writes |-> <<WritesAt(start, <<list_null_sentinel(opt)>>)>>,
        offset |-> start + 1,
        nested |-> Repeat(masked_out_write_offset, ListLength(array, i))]
  ELSE LET n == ListLength(array, i)
           starts == Vec([j \in 1..(n + 1) |->
                            ListElemStart(array, nested_row_widths, i, start, j)])
           end == starts[n + 1]
       IN  [writes |->
              [j \in 1..n |-> WritesAt(starts[j], <<list_continuation_token(opt)>>)]
              \o <<WritesAt(end, <<list_termination_token(opt)>>)>>,
            offset |-> end + 1,
            nested |-> Vec([j \in 1..n |-> starts[j] + 1])]

RECURSIVE encode_array(_, _, _, _, _, _)
RECURSIVE encode_array_fields(_, _, _, _, _, _, _)

\* The fields of a struct materialized in order on the shared cursors
encode_array_fields(encoders, opt, dicts, offsets, masked_out_write_offset, nested_offsets, n) ==
  IF n = 0 THEN Encoded(<<>>, offsets, nested_offsets)
  ELSE LET before == encode_array_fields(encoders, opt, dicts, offsets,
                                         masked_out_write_offset, nested_offsets, n - 1)
       IN  IF before.panic THEN before
           ELSE LET r == encode_array(encoders[n], opt, dicts[n], before.offsets,
                                      masked_out_write_offset, before.nested_offsets)
                IN  [r EXCEPT !.writes = before.writes \o r.writes]

\* encode_array_list that does not clear the scratch before filling it
encode_array_list_keeps_scratch(encoder, opt, dict, offsets, masked_out_write_offset, nested_offsets) ==
  LET array == encoder.array
      nested_row_widths == encoder.nested_row_widths
      rows == Vec([i \in 1..array.len |->
                     ListRow(array, nested_row_widths, opt, i, offsets[i],
                             masked_out_write_offset)])
      offsets1 == Vec([i \in 1..Len(offsets) |->
                         IF i <= array.len THEN rows[i].offset ELSE offsets[i]])
      child_offsets == nested_offsets \o Concat([i \in 1..array.len |-> rows[i].nested])
      writes == Concat([i \in 1..array.len |-> rows[i].writes])
  IN  IF array.dtype # "LargeList"
      THEN \* downcast_ref::<ListArray<i64>>().unwrap()
           EncodePanic(<<>>, offsets, nested_offsets)
      ELSE LET r == encode_array(encoder.nested[1], into_nested(opt), dict, child_offsets,
                                 masked_out_write_offset, <<>>)
           IN  [writes |-> writes \o r.writes, offsets |-> offsets1,
                nested_offsets |-> r.offsets, panic |-> r.panic]

\* EncoderState::List
encode_array_list(encoder, opt, dict, offsets, masked_out_write_offset, nested_offsets) ==
  LET array == encoder.array
      nested_row_widths == encoder.nested_row_widths
      rows == Vec([i \in 1..array.len |->
                     ListRow(array, nested_row_widths, opt, i, offsets[i],
                             masked_out_write_offset)])
      offsets1 == Vec([i \in 1..Len(offsets) |->
                         IF i <= array.len THEN rows[i].offset ELSE offsets[i]])
      child_offsets == Concat([i \in 1..array.len |-> rows[i].nested])
      writes == Concat([i \in 1..array.len |-> rows[i].writes])
  IN  IF array.dtype # "LargeList"
      THEN \* downcast_ref::<ListArray<i64>>().unwrap()
           EncodePanic(<<>>, offsets, nested_offsets)
      ELSE LET r == encode_array(encoder.nested[1], into_nested(opt), dict, child_offsets,
                                 masked_out_write_offset, <<>>)
           IN  [writes |-> writes \o r.writes, offsets |-> offsets1,
                nested_offsets |-> r.offsets, panic |-> r.panic]

\* encode_array_fsl that marks every row valid
encode_array_fsl_all_valid(encoder, opt, dict, offsets, masked_out_write_offset, nested_offsets) ==
  LET array == encoder.array
      width == encoder.width
      nested_row_widths == encoder.nested_row_widths
      v == encode_validity([array EXCEPT !.hv = FALSE], opt, offsets)
      ChildStart(i, j) ==
        v.offsets[i] + SumSeq([t \in 1..(j - 1) |-> nested_row_widths[(i - 1) * width + t]])
      child_offsets ==
        Vec([c \in 1..(Len(offsets) * width) |->
               ChildStart(((c - 1) \div width) + 1, ((c - 1) % width) + 1)])
  IN  IF width = 0 THEN Encoded(v.writes, v.offsets, nested_offsets)
      ELSE LET r == encode_array(encoder.nested[1], into_nested(opt), dict, child_offsets,
                                 masked_out_write_offset, nested_offsets)
           IN  [writes |-> v.writes \o r.writes,
                offsets |-> Vec([i \in 1..Len(offsets) |-> r.offsets[i * width]]),
                nested_offsets |-> r.nested_offsets, panic |-> r.panic]

\* EncoderState::FixedSizeList
encode_array_fsl(encoder, opt, dict, offsets, masked_out_write_offset, nested_offsets) ==
  LET array == encoder.array
      width == encoder.width
      nested_row_widths == encoder.nested_row_widths
      v == encode_validity(array, opt, offsets)
      ChildStart(i, j) ==
        v.offsets[i] + SumSeq([t \in 1..(j - 1) |-> nested_row_widths[(i - 1) * width + t]])
      child_offsets ==
        Vec([c \in 1..(Len(offsets) * width) |->
               ChildStart(((c - 1) \div width) + 1, ((c - 1) % width) + 1)])
  IN  IF width = 0 THEN Encoded(v.writes, v.offsets, nested_offsets)
      ELSE LET r == encode_array(encoder.nested[1], into_nested(opt), dict, child_offsets,
                                 masked_out_write_offset, nested_offsets)
           IN  [writes |-> v.writes \o r.writes,
                offsets |-> Vec([i \in 1..Len(offsets) |-> r.offsets[i * width]]),
                nested_offsets |-> r.nested_offsets, panic |-> r.panic]

\* encode_array_struct that materializes every field without sub-context
encode_array_struct_no_context(encoder, opt, dict, offsets, masked_out_write_offset, nested_offsets) ==
  LET array == encoder.array
      v == encode_validity(array, opt, offsets)
  IN  IF dict.kind \notin {"None", "Struct"}
      THEN EncodePanic(v.writes, v.offsets, nested_offsets)
      ELSE LET r == encode_array_fields(
                      encoder.nested, into_nested(opt),
                      Repeat(NoDict, Len(encoder.nested)),
                      v.offsets, masked_out_write_offset, nested_offsets,
                      Len(encoder.nested))
           IN  [r EXCEPT !.writes = v.writes \o r.writes]

\* EncoderState::Struct
encode_array_struct(encoder, opt, dict, offsets, masked_out_write_offset, nested_offsets) ==
  LET array == encoder.array
      v == encode_validity(array, opt, offsets)
  IN  IF dict.kind \notin {"None", "Struct"}
      THEN EncodePanic(v.writes, v.offsets, nested_offsets)
      ELSE LET r == encode_array_fields(
                      encoder.nested, into_nested(opt),
                      IF dict.kind = "None" THEN Repeat(NoDict, Len(encoder.nested))
                      ELSE dict.dicts,
                      v.offsets, masked_out_write_offset, nested_offsets,
                      IF dict.kind = "None" THEN Len(encoder.nested)
                      ELSE Min(Len(encoder.nested), Len(dict.dicts)))
           IN  [r EXCEPT !.writes = v.writes \o r.writes]

encode_array(encoder, opt, dict, offsets, masked_out_write_offset, nested_offsets) ==
  CASE encoder.state = "None" ->
         encode_flat_array(encoder.array, opt, dict, offsets, nested_offsets)
    [] encoder.state = "List" ->
         encode_array_list(encoder, opt, dict, offsets, masked_out_write_offset,
                           nested_offsets)
    [] encoder.state = "FixedSizeList" ->
         encode_array_fsl(encoder, opt, dict, offsets, masked_out_write_offset,
                          nested_offsets)
    [] encoder.state = "Struct" ->
         encode_array_struct(encoder, opt, dict, offsets, masked_out_write_offset,
                             nested_offsets)

\* ------------------------------------------------------------------ inputs
\* Validity of an array of n rows: no bitmap, or any bitmap (nullable), as
\* <<hv, validity>>.
Validities(n, nullable) ==
  {<<FALSE, <<>>>>} \cup
  (IF nullable THEN {<<TRUE, v>> : v \in [1..n -> BOOLEAN]} ELSE {})

NullArray(n) == Arr("Null", n, FALSE, <<>>, <<>>, <<>>, <<>>, 0, <<>>)

\* Primitive arrays (booleans, numerics, category codes, unsupported types)
PrimArrays(dtype, vals, n, nullable) ==
  {Arr(dtype, n, v[1], v[2], x, <<>>, <<>>, 0, <<>>) :
     v \in Validities(n, nullable), x \in [1..n -> vals]}

\* String and binary arrays
BinArrays(dtype, strs, n, nullable) ==
  {Arr(dtype, n, v[1], v[2], <<>>, x, <<>>, 0, <<>>) :
     v \in Validities(n, nullable), x \in [1..n -> strs]}

\* Offsets of a list of n rows over m child elements: from 0 to m, monotone
ListOffsets(n, m) ==
  {o \in [1..(n + 1) -> 0..m] :
     /\ o[1] = 0
     /\ o[n + 1] = m
     /\ \A i \in 1..n : o[i] <= o[i + 1]}

\* List arrays of n rows over at most maxlen child elements
ListArrays(dtype, Kid, n, maxlen, nullable) ==
  UNION {{Arr(dtype, n, v[1], v[2], <<>>, <<>>, o, 0, <<c>>) :
            v \in Validities(n, nullable), o \in ListOffsets(n, m), c \in Kid[m]} :
         m \in 0..maxlen}

FixedSizeListArrays(Kid, width, n, nullable) ==
  {Arr("FixedSizeList", n, v[1], v[2], <<>>, <<>>, <<>>, width, <<c>>) :
     v \in Validities(n, nullable), c \in Kid[n * width]}

Struct1Arrays(Kid1, n, nullable) ==
  {Arr("Struct", n, v[1], v[2], <<>>, <<>>, <<>>, 0, <<c>>) :
     v \in Validities(n, nullable), c \in Kid1[n]}

Struct2Arrays(Kid1, Kid2, n, nullable) ==
  {Arr("Struct", n, v[1], v[2], <<>>, <<>>, <<>>, 0, <<c, d>>) :
     v \in Validities(n, nullable), c \in Kid1[n], d \in Kid2[n]}

Str(n) == Repeat(0, n)

\* Leaf columns of every supported type
LeafColumns(n) ==
  {NullArray(n)}
  \cup PrimArrays("Boolean", {0, 1}, n, TRUE)
  \cup PrimArrays("Int8", {-128, -1, 0, 127}, n, TRUE)
  \cup PrimArrays("UInt8", {0, 1, 255}, n, TRUE)
  \cup PrimArrays("Int16", {-256, -1, 255, 256}, n, TRUE)
  \cup PrimArrays("UInt16", {1, 255, 256}, n, TRUE)
  \cup PrimArrays("Int32", {-65536, 1, 65536}, n, TRUE)
  \cup PrimArrays("UInt32", {255, 65536}, n, TRUE)
  \cup PrimArrays("Int64", {-1, 0, 16777216}, n, TRUE)
  \cup PrimArrays("UInt64", {0, 256}, n, TRUE)
  \cup BinArrays("LargeUtf8", {<<>>, <<97>>, <<97, 98>>, <<98>>}, n, TRUE)
  \cup BinArrays("Utf8View", {<<>>, <<0>>, <<0, 0>>}, n, FALSE)
  \cup BinArrays("LargeBinary", {<<>>, <<0>>, <<1>>, Str(BLOCK_SIZE + 1)}, n, TRUE)

\* Child arrays by length: the children of a list have at most MaxChildLen
\* rows, those of a fixed-size list of width 2 twice the rows of the list
KidLens == 0..Max(MaxChildLen, 2 * MaxRows)

SmallInt8 == [m \in KidLens |-> PrimArrays("Int8", {0, 1}, m, TRUE)]
SmallStr == [m \in KidLens |-> BinArrays("LargeUtf8", {<<>>, <<97>>}, m, TRUE)]
PlainInt8 == [m \in KidLens |-> PrimArrays("Int8", {0, 1}, m, FALSE)]
PlainStr == [m \in KidLens |-> BinArrays("LargeUtf8", {<<>>, <<97>>}, m, FALSE)]
PlainBool == [m \in KidLens |-> PrimArrays("Boolean", {0, 1}, m, FALSE)]
InnerList == [m \in KidLens |-> ListArrays("LargeList", PlainStr, m, MaxChildLen, TRUE)]

\* Structs of a boolean and a number, as children of a fixed-size list
BoolInt8Struct == [m \in KidLens |-> Struct2Arrays(PlainBool, PlainInt8, m, FALSE)]

\* Category codes, and the strings the codes 0 and 1 map to
CategoryCodes == [m \in KidLens |-> PrimArrays("UInt8", {0, 1}, m, FALSE)]
CategoryMapping == <<<<97, 98>>, <<97>>>>

\* Nested columns: lists (64-bit and 32-bit offsets), fixed-size lists,
\* structs, and nestings of them
NestedColumns(n) ==
  ListArrays("LargeList", SmallInt8, n, MaxChildLen, TRUE)
  \cup ListArrays("LargeList", SmallStr, n, MaxChildLen, TRUE)
  \cup ListArrays("List", PlainInt8, n, MaxChildLen, FALSE)
  \cup ListArrays("LargeList", InnerList, n, MaxChildLen, TRUE)
  \cup FixedSizeListArrays(SmallInt8, 1, n, TRUE)
  \cup FixedSizeListArrays(PlainStr, 2, n, TRUE)
  \cup FixedSizeListArrays(PlainInt8, 0, n, TRUE)
  \cup FixedSizeListArrays(InnerList, 1, n, TRUE)
  \cup Struct2Arrays(PlainBool, SmallInt8, n, TRUE)
  \cup Struct1Arrays(SmallStr, n, TRUE)
  \cup Struct1Arrays(InnerList, n, FALSE)
  \cup Struct2Arrays(CategoryCodes, PlainInt8, n, TRUE)
  \cup FixedSizeListArrays(BoolInt8Struct, 1, n, TRUE)
  \cup ListArrays("LargeList", CategoryCodes, n, MaxChildLen, TRUE)

\* Arrays of a type get_encoder does not accept, as children
DateKid == [m \in KidLens |-> PrimArrays("Date32", {0}, m, FALSE)]

\* Columns of a type get_encoder does not accept, and columns with a child
\* of such a type
UnsupportedColumns(n) ==
  PrimArrays("Date32", {0}, n, FALSE)
  \cup ListArrays("LargeList", DateKid, n, MaxChildLen, FALSE)
  \cup FixedSizeListArrays(DateKid, 1, n, FALSE)
  \cup Struct2Arrays(PlainInt8, DateKid, n, FALSE)

\* First columns of calls with several columns, and the columns after them
FirstColumns(n) ==
  BinArrays("LargeUtf8", {<<>>, <<97>>}, n, TRUE)
  \cup ListArrays("LargeList", PlainInt8, n, MaxChildLen, TRUE)

NextColumns(n) ==
  PrimArrays("Int8", {0, 1}, n, FALSE)
  \cup PrimArrays("Date32", {0}, n, FALSE)
  \cup ListArrays("LargeList", PlainInt8, n, 1, FALSE)

RECURSIVE NextColumnSeqs(_, _)
NextColumnSeqs(n, k) ==
  IF k = 0 THEN {<<>>}
  ELSE {Append(s, c) : s \in NextColumnSeqs(n, k - 1), c \in NextColumns(n)}

\* The columns of one call: none, one column of any kind, or several
ColumnInputs(n) ==
  {<<>>}
  \cup {<<c>> : c \in LeafColumns(n) \cup NestedColumns(n) \cup UnsupportedColumns(n)}
  \cup UNION {{<<c>> \o s : c \in FirstColumns(n), s \in NextColumnSeqs(n, k)} :
              k \in 1..(MaxCols - 1)}

Field(opt, dict) == [opt |-> opt, dict |-> dict]

\* The contexts a column is encoded with: none; for a struct of category
\* codes and numbers also a Struct context with one sub-context per field,
\* the first one a categorical (or enum) mapping; for mapped category codes
\* and lists of them also a categorical (or enum) mapping
Contexts(col) ==
  IF col.dtype = "Struct" /\ col.children[1].dtype = "UInt8"
  THEN {NoDict} \cup {StructDict(<<CategoricalDict(is_enum, CategoryMapping), NoDict>>) :
                        is_enum \in BOOLEAN}
  ELSE IF \/ (col.dtype = "UInt8" /\ \A i \in 1..col.len : col.values[i] + 1 \in DOMAIN CategoryMapping)
          \/ (col.dtype = "LargeList" /\ col.children[1].dtype = "UInt8")
  THEN {NoDict} \cup {CategoricalDict(is_enum, CategoryMapping) : is_enum \in BOOLEAN}
  ELSE {NoDict}

\* (options, context) of the first column; later columns are ordered keys
\* without context in either direction
FieldInputs(cols) ==
  IF cols = <<>> THEN {<<>>}
  ELSE UNION {{<<Field(o, c)>> \o s :
                 c \in Contexts(cols[1]),
                 s \in [1..(Len(cols) - 1) ->
                          {Field([descending |-> d, nulls_last |-> FALSE,
                                  no_order |-> o.no_order], NoDict) : d \in BOOLEAN}]} :
              o \in Options}

\* convert_columns_amortized_no_order: default options for every column
NoOrderFields(cols) == [i \in 1..Len(cols) |-> Field(DefaultOptions, NoDict)]

\* The public functions, and the fields each is called with: the no-order
\* ones build theirs, the reusing one is called with ordered keys
Entries ==
  {"convert_columns", "convert_columns_no_order", "convert_columns_amortized_no_order",
   "convert_columns_amortized"}

EntryFields(e, cols) ==
  CASE e \in {"convert_columns_no_order", "convert_columns_amortized_no_order"} ->
         {NoOrderFields(cols)}
    [] e = "convert_columns_amortized" ->
         {f \in FieldInputs(cols) :
            f # <<>> => (~f[1].opt.no_order /\ f[1].opt.nulls_last = f[1].opt.descending)}
    [] OTHER -> FieldInputs(cols)

\* RowsEncoded::new(vec![], vec![])
EmptyRows == [values |-> <<>>, offsets |-> <<>>]

\* A RowsEncoded of an earlier call, passed in for reuse
UsedRows == [values |-> <<9, 9, 9>>, offsets |-> <<0, 1, 3>>]

\* ------------------------------------------------------------ state machine
VARIABLES
  entry,                    \* the public function called
  num_rows, columns, fields, \* its arguments
  rows,                     \* the RowsEncoded of the caller
  pc,                       \* "plan", "encode", "done" or "panic"
  masked_out_max_length,
  row_widths,
  encoders,
  offsets,
  total_num_bytes,
  buffer,                   \* out's spare capacity; Uninit where never written
  encoded,                  \* number of columns materialized
  scratches,                \* EncodeScratches.nested_offsets
  writes,                   \* the stores made to the buffer so far, in order
  out_of_bounds             \* a write outside the buffer was attempted

\* ArrayChunked::apply_to_inner (polars-core, chunked_array/array/mod.rs)
VARIABLES
  apply_pc,                 \* "idle", "rechunk", "func", "ensure", "done" or "panic"
  apply_self,               \* the ArrayChunked the method is called on
  apply_arr,                \* ca.downcast_as_array() after the rechunk
  apply_out,                \* what func returned
  apply_result              \* what apply_to_inner returned

encode_vars == <<entry, num_rows, columns, fields, rows, pc, masked_out_max_length,
                 row_widths, encoders, offsets, total_num_bytes, buffer, encoded,
                 scratches, writes, out_of_bounds>>

apply_vars == <<apply_pc, apply_self, apply_arr, apply_out, apply_result>>

\* RowEncodedHashHotGrouper (polars-expr, hot_groups/row_encoded.rs)
VARIABLES
  table,                    \* FixedIndexTable<Vec<u8>>: the hot groups, slot by slot
  evicted_key_hashes,
  evicted_key_data,
  evicted_key_offsets,
  hot_idxs, hot_group_idxs, cold_idxs,  \* the caller's vectors after the call
  hot_call,                 \* the last call: its name, arguments and result
  hot_evicted               \* the groups that left the table since the last take

hot_vars == <<table, evicted_key_hashes, evicted_key_data, evicted_key_offsets,
              hot_idxs, hot_group_idxs, cold_idxs, hot_call, hot_evicted>>

\* MomentWindow (polars-compute, rolling/moment.rs)
VARIABLES
  window,                   \* the MomentWindow
  window_call,              \* the last call: its name, arguments and result
  window_underflow          \* a counter was decremented at zero

moment_vars == <<window, window_call, window_underflow>>

\* set_cache_states (polars-plan, plans/optimizer/cache_states.rs)
VARIABLES
  cache_pc,                 \* "idle", "first_traversal", "second_pass" or "done"
  lp_arena,                 \* Arena<IR>: the plan, node by node
  cache_schema_and_children, \* the BTreeMap from cache id to Value
  cache_todo,               \* the cache ids the second pass has not reached yet
  pd_calls,                 \* the optimize calls made so far, in order
  cache_plan                \* the plan set_cache_states was called on

cache_vars == <<cache_pc, lp_arena, cache_schema_and_children, cache_todo, pd_calls,
                cache_plan>>

not_encode_vars == <<apply_vars, hot_vars, moment_vars, cache_vars>>
not_apply_vars == <<encode_vars, hot_vars, moment_vars, cache_vars>>
not_hot_vars == <<encode_vars, apply_vars, moment_vars, cache_vars>>
not_moment_vars == <<encode_vars, apply_vars, hot_vars, cache_vars>>
not_cache_vars == <<encode_vars, apply_vars, hot_vars, moment_vars>>

vars == <<encode_vars, apply_vars, hot_vars, moment_vars, cache_vars>>

\* No set_cache_states call is under way
CacheIdle ==
  /\ cache_pc = "idle"
  /\ lp_arena = <<>>
  /\ cache_schema_and_children = <<>>
  /\ cache_todo = <<>>
  /\ pd_calls = <<>>
  /\ cache_plan = <<>>

\* No MomentWindow is in use
MomentIdle ==
  /\ window = <<>>
  /\ window_call = [op |-> "idle"]
  /\ window_underflow = FALSE

\* Offsets::new(), which is also Offsets::default()
OffsetsNew == <<0>>

\* No RowEncodedHashHotGrouper is in use
HotIdle ==
  /\ table = <<>>
  /\ evicted_key_hashes = <<>>
  /\ evicted_key_data = <<>>
  /\ evicted_key_offsets = OffsetsNew
  /\ hot_idxs = <<>>
  /\ hot_group_idxs = <<>>
  /\ cold_idxs = <<>>
  /\ hot_call = [op |-> "idle"]
  /\ hot_evicted = <<>>

\* No call of apply_to_inner is under way
ApplyIdle ==
  /\ apply_pc = "idle"
  /\ apply_self = <<>>
  /\ apply_arr = <<>>
  /\ apply_out = <<>>
  /\ apply_result = <<>>

Uninit == -1

\* What a byte of uninitialized memory may read as
Garbage == {0, 170}

Init ==
  /\ num_rows \in 0..MaxRows
  /\ columns \in ColumnInputs(num_rows)
  /\ entry \in Entries
  /\ fields \in EntryFields(entry, columns)
  /\ rows = IF entry \in {"convert_columns_amortized", "convert_columns_amortized_no_order"}
            THEN UsedRows ELSE EmptyRows
  /\ pc = "plan"
  /\ masked_out_max_length = 0
  /\ row_widths = RowWidthsNew(num_rows)
  /\ encoders = <<>>
  /\ offsets = <<>>
  /\ total_num_bytes = 0
  /\ buffer = <<>>
  /\ encoded = 0
  /\ scratches = <<>>
  /\ writes = <<>>
  /\ out_of_bounds = FALSE
  /\ ApplyIdle
  /\ HotIdle
  /\ MomentIdle
  /\ CacheIdle

\* Plan that starts every column with a masked-out maximum of 0
PlanFreshMaskedOut ==
  /\ pc = "plan"
  /\ Len(encoders) < Min(Len(columns), Len(fields))
  /\ LET k == Len(encoders) + 1
         r == get_encoder(columns[k], fields[k].opt, fields[k].dict, row_widths, 0)
     IN  /\ pc' = IF r.panic THEN "panic" ELSE "plan"
         /\ encoders' = IF r.panic THEN encoders ELSE Append(encoders, r.encoder)
         /\ row_widths' = r.row_widths
         /\ masked_out_max_length' = r.masked_out_max_width
  /\ UNCHANGED <<entry, num_rows, columns, fields, rows, offsets, total_num_bytes,
                 buffer, encoded, scratches, writes, out_of_bounds>>
  /\ UNCHANGED not_encode_vars

\* One step of the map over the columns: get_encoder for the next column
Plan ==
  /\ pc = "plan"
  /\ Len(encoders) < Min(Len(columns), Len(fields))
  /\ LET k == Len(encoders) + 1
         r == get_encoder(columns[k], fields[k].opt, fields[k].dict, row_widths,
                          masked_out_max_length)
     IN  /\ pc' = IF r.panic THEN "panic" ELSE "plan"
         /\ encoders' = IF r.panic THEN encoders ELSE Append(encoders, r.encoder)
         /\ row_widths' = r.row_widths
         /\ masked_out_max_length' = r.masked_out_max_width
  /\ UNCHANGED <<entry, num_rows, columns, fields, rows, offsets, total_num_bytes,
                 buffer, encoded, scratches, writes, out_of_bounds>>
  /\ UNCHANGED not_encode_vars

\* Allocate as soon as one column is planned
AllocateEarly ==
  /\ pc = "plan"
  /\ Len(encoders) >= Min(1, Min(Len(columns), Len(fields)))
  /\ offsets' = extend_with_offsets(row_widths, <<0>>)
  /\ total_num_bytes' = RowWidthsSum(row_widths)
  /\ buffer' = Repeat(Uninit, RowWidthsSum(row_widths) + masked_out_max_length)
  /\ pc' = "encode"
  /\ UNCHANGED <<entry, num_rows, columns, fields, rows, masked_out_max_length,
                 row_widths, encoders, encoded, scratches, writes, out_of_bounds>>
  /\ UNCHANGED not_encode_vars

\* The offsets array (with the leading 0) and the uninitialized buffer
Allocate ==
  /\ pc = "plan"
  /\ Len(encoders) = Min(Len(columns), Len(fields))
  /\ offsets' = extend_with_offsets(row_widths, <<0>>)
  /\ total_num_bytes' = RowWidthsSum(row_widths)
  /\ buffer' = Repeat(Uninit, RowWidthsSum(row_widths) + masked_out_max_length)
  /\ pc' = "encode"
  /\ UNCHANGED <<entry, num_rows, columns, fields, rows, masked_out_max_length,
                 row_widths, encoders, encoded, scratches, writes, out_of_bounds>>
  /\ UNCHANGED not_encode_vars

\* The writes (by index, in order) that store a byte at buffer index p - 1
Covering(ws, p) ==
  {w \in DOMAIN ws : ws[w][1] < p /\ p <= ws[w][1] + Len(ws[w][2])}

\* The buffer after the writes: the last write to a position wins
ApplyWrites(buf, ws) ==
  [p \in DOMAIN buf |->
     LET c == Covering(ws, p)
     IN  IF c = {} THEN buf[p]
         ELSE LET w == ws[SetMax(c)] IN w[2][p - w[1]]]

\* A write reaches outside the allocation
OutOfBounds(buf, ws) ==
  \E w \in DOMAIN ws :
     /\ ws[w][2] # <<>>
     /\ (ws[w][1] < 0 \/ ws[w][1] + Len(ws[w][2]) > Len(buf))

\* Encode that does not carry the advanced cursors over to the next column
EncodeAtRowStarts ==
  /\ pc = "encode"
  /\ encoded < Len(encoders)
  /\ LET k == encoded + 1
         r == encode_array(encoders[k], fields[k].opt, fields[k].dict, Tail(offsets),
                           total_num_bytes, scratches)
         oob == OutOfBounds(buffer, r.writes)
     IN  /\ buffer' = ApplyWrites(buffer, r.writes)
         /\ writes' = writes \o r.writes
         /\ offsets' = offsets
         /\ scratches' = r.nested_offsets
         /\ out_of_bounds' = oob
         /\ pc' = IF r.panic \/ oob THEN "panic" ELSE "encode"
         /\ encoded' = encoded + 1
  /\ UNCHANGED <<entry, num_rows, columns, fields, rows, masked_out_max_length,
                 row_widths, encoders, total_num_bytes>>
  /\ UNCHANGED not_encode_vars

\* One step of the materialization loop: encode_array for the next column on
\* offsets[1..]
Encode ==
  /\ pc = "encode"
  /\ encoded < Len(encoders)
  /\ LET k == encoded + 1
         r == encode_array(encoders[k], fields[k].opt, fields[k].dict, Tail(offsets),
                           total_num_bytes, scratches)
         oob == OutOfBounds(buffer, r.writes)
     IN  /\ buffer' = ApplyWrites(buffer, r.writes)
         /\ writes' = writes \o r.writes
         /\ offsets' = <<offsets[1]>> \o r.offsets
         /\ scratches' = r.nested_offsets
         /\ out_of_bounds' = oob
         /\ pc' = IF r.panic \/ oob THEN "panic" ELSE "encode"
         /\ encoded' = encoded + 1
  /\ UNCHANGED <<entry, num_rows, columns, fields, rows, masked_out_max_length,
                 row_widths, encoders, total_num_bytes>>
  /\ UNCHANGED not_encode_vars

\* Finish that extends the vectors of the RowsEncoded passed in
FinishAppending ==
  /\ pc = "encode"
  /\ encoded = Len(encoders)
  /\ \E g \in Garbage :
       rows' = [values |-> rows.values \o
                             [p \in 1..total_num_bytes |->
                                IF buffer[p] = Uninit THEN g ELSE buffer[p]],
                offsets |-> rows.offsets \o offsets]
  /\ pc' = "done"
  /\ UNCHANGED <<entry, num_rows, columns, fields, masked_out_max_length, row_widths,
                 encoders, offsets, total_num_bytes, buffer, encoded, scratches,
                 writes, out_of_bounds>>
  /\ UNCHANGED not_encode_vars

\* Finish with set_len(capacity): the scratch region is returned too
FinishWholeBuffer ==
  /\ pc = "encode"
  /\ encoded = Len(encoders)
  /\ \E g \in Garbage :
       rows' = [values |-> [p \in 1..Len(buffer) |->
                              IF buffer[p] = Uninit THEN g ELSE buffer[p]],
                offsets |-> offsets]
  /\ pc' = "done"
  /\ UNCHANGED <<entry, num_rows, columns, fields, masked_out_max_length, row_widths,
                 encoders, offsets, total_num_bytes, buffer, encoded, scratches,
                 writes, out_of_bounds>>
  /\ UNCHANGED not_encode_vars

\* set_len(total_num_bytes) and *rows = RowsEncoded { values: out, offsets }
Finish ==
  /\ pc = "encode"
  /\ encoded = Len(encoders)
  /\ \E g \in Garbage :
       rows' = [values |-> [p \in 1..total_num_bytes |->
                              IF buffer[p] = Uninit THEN g ELSE buffer[p]],
                offsets |-> offsets]
  /\ pc' = "done"
  /\ UNCHANGED <<entry, num_rows, columns, fields, masked_out_max_length, row_widths,
                 encoders, offsets, total_num_bytes, buffer, encoded, scratches,
                 writes, out_of_bounds>>
  /\ UNCHANGED not_encode_vars

Next == Plan \/ Allocate \/ Encode \/ Finish

Spec == Init /\ [][Next]_vars

\* ------------------------------------------- ArrayChunked::apply_to_inner
MaxChunks == 2
MaxChunkLen == 2
MaxWidth == 2

\* No call of convert_columns is under way
EncodeIdle ==
  /\ entry = "none"
  /\ num_rows = 0
  /\ columns = <<>>
  /\ fields = <<>>
  /\ rows = EmptyRows
  /\ pc = "idle"
  /\ masked_out_max_length = 0
  /\ row_widths = <<>>
  /\ encoders = <<>>
  /\ offsets = <<>>
  /\ total_num_bytes = 0
  /\ buffer = <<>>
  /\ encoded = 0
  /\ scratches = <<>>
  /\ writes = <<>>
  /\ out_of_bounds = FALSE

\* The inner values of a chunk of n elements: element i holds base + i
InnerValues(base, n) ==
  Arr("Int8", n, FALSE, <<>>, [i \in 1..n |-> base + i], <<>>, <<>>, 0, <<>>)

\* The chunks of an ArrayChunked of the given width: fixed-size-list arrays
\* with or without validity bitmap
Chunks(width) ==
  UNION {{Arr("FixedSizeList", n, v[1], v[2], <<>>, <<>>, <<>>, width,
              <<InnerValues(0, n * width)>>) : v \in Validities(n, TRUE)} :
         n \in 0..MaxChunkLen}

\* An ArrayChunked: at least one chunk
ArrayChunkedInputs ==
  UNION {{[chunks |-> c, width |-> w] :
            c \in UNION {[1..k -> Chunks(w)] : k \in 1..MaxChunks}} :
         w \in 0..MaxWidth}

\* A Series of the given chunks
Series(chunks) == [chunks |-> chunks]

\* Series::len
SeriesLen(series) == SumSeq([c \in DOMAIN series.chunks |-> series.chunks[c].len])

\* The values of all chunks of a Series in order
SeriesValues(series) == Concat([c \in DOMAIN series.chunks |-> series.chunks[c].values])

\* ChunkedArray::rechunk of an ArrayChunked followed by downcast_as_array:
\* one fixed-size-list array holding the rows, the validity and the inner
\* values of all chunks
rechunk_array(ca) ==
  LET len == SumSeq([c \in DOMAIN ca.chunks |-> ca.chunks[c].len])
      hv == \E c \in DOMAIN ca.chunks : ca.chunks[c].hv
      validity ==
        IF hv THEN Concat([c \in DOMAIN ca.chunks |->
                             [i \in 1..ca.chunks[c].len |-> IsValid(ca.chunks[c], i)]])
        ELSE <<>>
      values == Concat([c \in DOMAIN ca.chunks |-> ca.chunks[c].children[1].values])
  IN  Arr("FixedSizeList", len, hv, validity, <<>>, <<>>, <<>>, ca.width,
          <<Arr("Int8", Len(values), FALSE, <<>>, values, <<>>, <<>>, 0, <<>>)>>)

\* Series::rechunk: one chunk with the values of all chunks
rechunk_series(series) ==
  LET values == SeriesValues(series)
  IN  Series(<<Arr("Int8", Len(values), FALSE, <<>>, values, <<>>, <<>>, 0, <<>>)>>)

\* What func may return for a Series of n elements: an error, or a Series of
\* some length in one or two chunks
FuncResults(n) ==
  {[kind |-> "Err", series |-> <<>>]}
  \cup {[kind |-> "Ok", series |-> Series(<<InnerValues(t, l)>>)] :
          t \in {100, 200}, l \in {x \in {0, n - 1, n, n + 1} : x >= 0}}
  \cup {[kind |-> "Ok", series |-> Series(<<InnerValues(t, 1), InnerValues(t + 1, l - 1)>>)] :
          t \in {100, 200}, l \in {x \in {n - 1, n, n + 1} : x >= 1}}

ApplyInit ==
  /\ EncodeIdle
  /\ HotIdle
  /\ MomentIdle
  /\ CacheIdle
  /\ apply_pc = "rechunk"
  /\ apply_self \in ArrayChunkedInputs
  /\ apply_arr = <<>>
  /\ apply_out = <<>>
  /\ apply_result = <<>>

\* let ca = self.rechunk(); let arr = ca.downcast_as_array();
ApplyRechunk ==
  /\ apply_pc = "rechunk"
  /\ apply_arr' = rechunk_array(apply_self)
  /\ apply_pc' = "func"
  /\ UNCHANGED <<apply_self, apply_out, apply_result>>
  /\ UNCHANGED not_apply_vars

\* func(elements), elements being the inner values of arr
ApplyFunc ==
  /\ apply_pc = "func"
  /\ apply_out' \in FuncResults(apply_arr.children[1].len)
  /\ apply_pc' = "ensure"
  /\ UNCHANGED <<apply_self, apply_arr, apply_result>>
  /\ UNCHANGED not_apply_vars

\* FixedSizeListArray::new: the values must hold length * size elements
FixedSizeListArrayNew(width, length, values, hv, validity) ==
  IF values.len # length * width \/ (hv /\ Len(validity) # length)
  THEN [kind |-> "panic", value |-> <<>>]
  ELSE [kind |-> "Ok",
        value |-> [chunks |-> <<Arr("FixedSizeList", length, hv, validity, <<>>, <<>>, <<>>,
                                    width, <<values>>)>>,
                   width |-> width]]

\* ApplyEnsure without the length check
ApplyEnsureUnchecked ==
  /\ apply_pc = "ensure"
  /\ LET expected_len == apply_arr.children[1].len
         r == IF apply_out.kind = "Err" THEN [kind |-> "Err", value |-> <<>>]
              ELSE FixedSizeListArrayNew(apply_self.width, apply_arr.len,
                                         rechunk_series(apply_out.series).chunks[1],
                                         apply_arr.hv, apply_arr.validity)
     IN  /\ apply_result' = r
         /\ apply_pc' = IF r.kind = "panic" THEN "panic" ELSE "done"
  /\ UNCHANGED <<apply_self, apply_arr, apply_out>>
  /\ UNCHANGED not_apply_vars

\* The ? on func's result, polars_ensure!(out.len() == expected_len), and the
\* array built from out's values with arr's length and validity
ApplyEnsure ==
  /\ apply_pc = "ensure"
  /\ LET expected_len == apply_arr.children[1].len
         r == IF apply_out.kind = "Err" THEN [kind |-> "Err", value |-> <<>>]
              ELSE IF SeriesLen(apply_out.series) # expected_len
              THEN [kind |-> "ComputeError", value |-> <<>>]
              ELSE FixedSizeListArrayNew(apply_self.width, apply_arr.len,
                                         rechunk_series(apply_out.series).chunks[1],
                                         apply_arr.hv, apply_arr.validity)
     IN  /\ apply_result' = r
         /\ apply_pc' = IF r.kind = "panic" THEN "panic" ELSE "done"
  /\ UNCHANGED <<apply_self, apply_arr, apply_out>>
  /\ UNCHANGED not_apply_vars

ApplyNext == ApplyRechunk \/ ApplyFunc \/ ApplyEnsure

ApplySpec == ApplyInit /\ [][ApplyNext]_vars

\* Validity of row r (1-based over all chunks) of an ArrayChunked
RECURSIVE ChunkedIsValid(_, _, _)
ChunkedIsValid(chunks, c, r) ==
  IF r <= chunks[c].len THEN IsValid(chunks[c], r)
  ELSE ChunkedIsValid(chunks, c + 1, r - chunks[c].len)

ChunkedLen(ca) == SumSeq([c \in DOMAIN ca.chunks |-> ca.chunks[c].len])

\* C11: apply_to_inner returns a ComputeError whenever func returns a Series
\* whose length differs from the number of inner elements it was given; when
\* the lengths are equal it returns an array with the rows, the width and
\* the validity of the input whose inner values are func's output values.
C11_ApplyToInner ==
  (apply_pc \in {"done", "panic"} /\ apply_out.kind = "Ok") =>
    LET given == SumSeq([c \in DOMAIN apply_self.chunks |->
                           apply_self.chunks[c].children[1].len])
    IN  IF SeriesLen(apply_out.series) # given
        THEN apply_result.kind = "ComputeError"
        ELSE /\ apply_result.kind = "Ok"
             /\ apply_result.value.width = apply_self.width
             /\ ChunkedLen(apply_result.value) = ChunkedLen(apply_self)
             /\ \A r \in 1..ChunkedLen(apply_self) :
                  ChunkedIsValid(apply_result.value.chunks, 1, r)
                    = ChunkedIsValid(apply_self.chunks, 1, r)
             /\ SeriesValues(Series(<<apply_result.value.chunks[1].children[1]>>))
                  = SeriesValues(apply_out.series)

C11_Witness ==
  /\ apply_pc = "done"
  /\ Len(apply_self.chunks) = 2
  /\ apply_self.width = 2
  /\ apply_self.chunks[1].hv /\ ~apply_self.chunks[2].hv
  /\ apply_self.chunks[1].len = 2 /\ apply_self.chunks[2].len = 1
  /\ ~IsValid(apply_self.chunks[1], 2)
  /\ apply_out.kind = "Ok"
  /\ Len(apply_out.series.chunks) = 2
  /\ apply_result.kind = "Ok"

\* ------------------------------------------------------------------ claims
Done == pc = "done"

\* The bytes of row i of the returned RowsEncoded
Slice(i) == SubSeq(rows.values, rows.offsets[i] + 1, rows.offsets[i + 1])

\* Number of stores made to the buffer index p - 1
NWrites(p) == Cardinality(Covering(writes, p))

\* Number of bytes stored inside the slice of row i
RowBytes(i) ==
  Cardinality({x \in (DOMAIN writes) \X ((rows.offsets[i] + 1)..rows.offsets[i + 1]) :
                 x[1] \in Covering(writes, x[2])})

RECURSIVE HasMaskedChildren(_)
HasMaskedChildren(array) ==
  \/ /\ array.dtype \in ListTypes
     /\ \E i \in 1..array.len : ~IsValid(array, i) /\ ListLength(array, i) > 0
  \/ \E c \in DOMAIN array.children : HasMaskedChildren(array.children[c])

\* The stores that start in the scratch region
ScratchWrites == {w \in DOMAIN writes : writes[w][1] >= total_num_bytes}

Sign(x) == IF x < 0 THEN -1 ELSE IF x > 0 THEN 1 ELSE 0

SetMin(S) == CHOOSE m \in S : \A x \in S : m <= x

\* Lexicographic comparison of two byte strings: -1, 0 or 1
SeqCmp(a, b) ==
  LET d == {k \in 1..Min(Len(a), Len(b)) : a[k] # b[k]}
  IN  IF d = {} THEN Sign(Len(a) - Len(b))
      ELSE Sign(a[SetMin(d)] - b[SetMin(d)])

\* A comparison result under the direction of opt
Dir(opt, c) == IF opt.descending THEN 0 - c ELSE c

\* Row i of the array holds no value
SemNull(array, i) == array.dtype = "Null" \/ ~IsValid(array, i)

\* Comparison of the values of rows i and j of an array as sort keys under
\* opt: nulls by the null placement, values by the direction, children of
\* nested values under the nested options.  What lies under a null row is not
\* part of its value.
RECURSIVE SemCmp(_, _, _, _)
SemCmp(array, i, j, opt) ==
  LET nested == into_nested(opt)
      child == array.children[1]
  IN  IF SemNull(array, i) /\ SemNull(array, j) THEN 0
      ELSE IF SemNull(array, i) THEN (IF opt.nulls_last THEN 1 ELSE -1)
      ELSE IF SemNull(array, j) THEN (IF opt.nulls_last THEN -1 ELSE 1)
      ELSE CASE array.dtype \in {"Boolean"} \cup NumericTypes ->
                  Dir(opt, Sign(array.values[i] - array.values[j]))
             [] array.dtype \in StrTypes \cup BinTypes ->
                  Dir(opt, SeqCmp(array.bins[i], array.bins[j]))
             [] array.dtype \in ListTypes ->
                  LET oi == ListOffset(array, i)
                      oj == ListOffset(array, j)
                      d == {k \in 1..Min(ListLength(array, i), ListLength(array, j)) :
                              SemCmp(child, oi + k, oj + k, nested) # 0}
                  IN  IF d = {}
                      THEN Dir(opt, Sign(ListLength(array, i) - ListLength(array, j)))
                      ELSE SemCmp(child, oi + SetMin(d), oj + SetMin(d), nested)
             [] array.dtype = "FixedSizeList" ->
                  LET oi == (i - 1) * array.width
                      oj == (j - 1) * array.width
                      d == {k \in 1..array.width : SemCmp(child, oi + k, oj + k, nested) # 0}
                  IN  IF d = {} THEN 0
                      ELSE SemCmp(child, oi + SetMin(d), oj + SetMin(d), nested)
             [] array.dtype = "Struct" ->
                  LET d == {f \in DOMAIN array.children :
                              SemCmp(array.children[f], i, j, nested) # 0}
                  IN  IF d = {} THEN 0
                      ELSE SemCmp(array.children[SetMin(d)], i, j, nested)
             [] OTHER -> 0

\* Comparison of rows i and j of the call key by key in column order
RowCmp(i, j) ==
  LET d == {k \in DOMAIN columns : SemCmp(columns[k], i, j, fields[k].opt) # 0}
  IN  IF d = {} THEN 0
      ELSE SemCmp(columns[SetMin(d)], i, j, fields[SetMin(d)].opt)

\* A null row of a struct or fixed-size list (at any depth) with children
RECURSIVE HasNullWithChildren(_)
HasNullWithChildren(array) ==
  \/ /\ array.dtype \in {"Struct", "FixedSizeList"}
     /\ \E i \in 1..array.len : ~IsValid(array, i)
     /\ array.dtype = "FixedSizeList" => array.width > 0
  \/ \E c \in DOMAIN array.children : HasNullWithChildren(array.children[c])

AllOrdered == \A k \in DOMAIN fields : is_ordered(fields[k].opt)

\* C4: for any two rows of a convert_columns call with ordered options, the
\* byte-wise lexicographic comparison of their slices gives the result of
\* comparing the rows key by key in column order, each key under its own
\* direction and null placement.
C4_RowOrder ==
  (Done /\ entry = "convert_columns" /\ AllOrdered) =>
    \A i, j \in 1..num_rows : SeqCmp(Slice(i), Slice(j)) = RowCmp(i, j)

\* The same with the calls left out in which a struct or fixed-size-list row
\* is null above children
C4_RowOrderOfPlainNulls ==
  (Done /\ entry = "convert_columns" /\ AllOrdered
        /\ \A k \in DOMAIN columns : ~HasNullWithChildren(columns[k])) =>
    \A i, j \in 1..num_rows : SeqCmp(Slice(i), Slice(j)) = RowCmp(i, j)

LeafTypes == {"Boolean"} \cup NumericTypes \cup StrTypes \cup BinTypes

\* C5: for a column of a supported leaf type and two non-null values a, b
\* encoded with the same ordered options, encode(a) is byte-wise smaller than
\* encode(b) iff a < b (ascending) or a > b (descending).
C5_LeafOrderPreserved ==
  (/\ Done
   /\ Len(columns) = 1
   /\ num_rows = 2
   /\ columns[1].dtype \in LeafTypes
   /\ fields[1].dict = NoDict
   /\ IsValid(columns[1], 1) /\ IsValid(columns[1], 2)
   /\ is_ordered(fields[1].opt)) =>
    LET c == columns[1]
        lt == IF c.dtype \in StrTypes \cup BinTypes
              THEN SeqCmp(c.bins[1], c.bins[2]) = -1
              ELSE c.values[1] < c.values[2]
        gt == IF c.dtype \in StrTypes \cup BinTypes
              THEN SeqCmp(c.bins[1], c.bins[2]) = 1
              ELSE c.values[1] > c.values[2]
    IN  (SeqCmp(Slice(1), Slice(2)) = -1) <=> (IF fields[1].opt.descending THEN gt ELSE lt)

C5_Witness ==
  /\ Done
  /\ Len(columns) = 1
  /\ columns[1].dtype = "LargeUtf8"
  /\ columns[1].hv
  /\ columns[1].validity = <<TRUE, TRUE>>
  /\ columns[1].bins = <<<<97>>, <<97, 98>>>>
  /\ fields[1].opt.descending
  /\ is_ordered(fields[1].opt)
  /\ SeqCmp(Slice(1), Slice(2)) = 1

\* C6: for a call with one ordered column, a null row's slice is byte-wise
\* below every non-null row's slice when the column is nulls-first and above
\* it when nulls-last, in either direction; two null rows have equal slices.
C6_NullPlacement ==
  (Done /\ Len(columns) = 1 /\ is_ordered(fields[1].opt)) =>
    \A i, j \in 1..num_rows :
      /\ (SemNull(columns[1], i) /\ ~SemNull(columns[1], j)) =>
           SeqCmp(Slice(i), Slice(j)) = (IF fields[1].opt.nulls_last THEN 1 ELSE -1)
      /\ (SemNull(columns[1], i) /\ SemNull(columns[1], j)) => Slice(i) = Slice(j)

\* The first half alone: a null row against a non-null row
C6_NullAgainstValue ==
  (Done /\ Len(columns) = 1 /\ is_ordered(fields[1].opt)) =>
    \A i, j \in 1..num_rows :
      (SemNull(columns[1], i) /\ ~SemNull(columns[1], j)) =>
        SeqCmp(Slice(i), Slice(j)) = (IF fields[1].opt.nulls_last THEN 1 ELSE -1)

\* C7: two rows produced by convert_columns_no_order have equal slices iff
\* they are equal in every column (same value, or both null).
C7_NoOrderInjective ==
  (Done /\ entry = "convert_columns_no_order") =>
    \A i, j \in 1..num_rows : (Slice(i) = Slice(j)) <=> (RowCmp(i, j) = 0)

\* The same with the calls left out in which a struct or fixed-size-list row
\* is null above children
C7_NoOrderInjectiveOfPlainNulls ==
  (Done /\ entry = "convert_columns_no_order"
        /\ \A k \in DOMAIN columns : ~HasNullWithChildren(columns[k])) =>
    \A i, j \in 1..num_rows : (Slice(i) = Slice(j)) <=> (RowCmp(i, j) = 0)

\* C8: the returned offsets have num_rows + 1 entries, start with 0 and are
\* non-decreasing (<<0>> for no rows, all 0 for no columns), and nothing of
\* the RowsEncoded passed in remains: the returned value is the new buffer
\* and the new offsets.
C8_OffsetsShape ==
  Done =>
    /\ Len(rows.offsets) = num_rows + 1
    /\ rows.offsets[1] = 0
    /\ \A i \in 1..num_rows : rows.offsets[i] <= rows.offsets[i + 1]
    /\ num_rows = 0 => rows.offsets = <<0>>
    /\ columns = <<>> => \A i \in DOMAIN rows.offsets : rows.offsets[i] = 0
    /\ rows.offsets = offsets
    /\ rows.values = SubSeq(buffer, 1, total_num_bytes)

C8_Witness ==
  /\ Done
  /\ entry = "convert_columns_amortized"
  /\ num_rows = 0
  /\ Len(columns) = 1
  /\ rows.offsets = <<0>>
  /\ rows.values = <<>>

\* C9: once get_encoder has returned a plan for every column of a call
\* without contexts, the call does not panic.
C9_NoPanicAfterPlan ==
  (/\ Len(encoders) = Len(columns)
   /\ \A k \in DOMAIN fields : fields[k].dict = NoDict) => pc # "panic"

\* The same with the list columns of 32-bit offsets left out
RECURSIVE HasList32(_)
HasList32(array) ==
  \/ array.dtype = "List"
  \/ \E c \in DOMAIN array.children : HasList32(array.children[c])

C9_NoPanicWithoutList32 ==
  (/\ Len(encoders) = Len(columns)
   /\ \A k \in DOMAIN columns : ~HasList32(columns[k])
   /\ \A k \in DOMAIN fields : fields[k].dict = NoDict) => pc # "panic"

\* convert_columns_amortized as a function of its arguments: the plans of the
\* first k columns
RECURSIVE PlannedColumns(_, _, _, _)
PlannedColumns(n, cols, flds, k) ==
  IF k = 0
  THEN [encoders |-> <<>>, row_widths |-> RowWidthsNew(n), masked_out_max_width |-> 0]
  ELSE LET before == PlannedColumns(n, cols, flds, k - 1)
           r == get_encoder(cols[k], flds[k].opt, flds[k].dict, before.row_widths,
                            before.masked_out_max_width)
       IN  [encoders |-> Append(before.encoders, r.encoder),
            row_widths |-> r.row_widths,
            masked_out_max_width |-> r.masked_out_max_width]

\* ... the writes and the cursors after the first k columns
RECURSIVE EncodedColumns(_, _, _, _, _, _)
EncodedColumns(encs, flds, starts, total, scr, k) ==
  IF k = 0 THEN Encoded(<<>>, starts, scr)
  ELSE LET before == EncodedColumns(encs, flds, starts, total, scr, k - 1)
           r == encode_array(encs[k], flds[k].opt, flds[k].dict, before.offsets, total,
                             before.nested_offsets)
       IN  [r EXCEPT !.writes = before.writes \o r.writes]

\* ... and the RowsEncoded: the bytes stored below total_num_bytes by the
\* writes that start there (Uninit where there is none), and the cursors
ReturnedRows(n, cols, flds) ==
  LET p == PlannedColumns(n, cols, flds, Min(Len(cols), Len(flds)))
      total == RowWidthsSum(p.row_widths)
      e == EncodedColumns(p.encoders, flds, extend_with_offsets(p.row_widths, <<>>), total,
                          <<>>, Len(p.encoders))
      below == {w \in DOMAIN e.writes : e.writes[w][1] < total}
  IN  [values |-> [q \in 1..total |->
                     LET c == Covering(e.writes, q) \cap below
                     IN  IF c = {} THEN Uninit
                         ELSE e.writes[SetMax(c)][2][q - e.writes[SetMax(c)][1]]],
       offsets |-> <<0>> \o e.offsets]

C12_PassOrder ==
  [][/\ (writes' # writes =>
          /\ pc = "encode"
          /\ Len(encoders) = Min(Len(columns), Len(fields))
          /\ Len(offsets) = num_rows + 1
          /\ Len(buffer) = RowWidthsSum(row_widths) + masked_out_max_length)
     /\ (pc # "plan" =>
          /\ pc' # "plan"
          /\ row_widths' = row_widths
          /\ masked_out_max_length' = masked_out_max_length
          /\ encoders' = encoders
          /\ total_num_bytes' = total_num_bytes
          /\ Len(buffer') = Len(buffer))
     /\ (pc = "plan" => writes = <<>> /\ buffer = <<>> /\ encoded = 0)]_vars

C12_Witness ==
  /\ pc = "encode"
  /\ encoded = 1
  /\ Len(encoders) = 2
  /\ writes # <<>>
  /\ masked_out_max_length > 0
  /\ \E k \in 1..2 : encoders[k].nested # <<>>

\* The widths get_encoder adds for the rows of a node
PlannedWidths(array, opt, dict) ==
  get_encoder(array, opt, dict, RowWidthsNew(array.len), 0).row_widths

\* Number of bytes the writes ws store at the positions lo..hi-1
BytesIn(ws, lo, hi) ==
  SumSeq([w \in DOMAIN ws |->
            Max(0, Min(hi, ws[w][1] + Len(ws[w][2])) - Max(lo, ws[w][1]))])

\* The cursors encode_array hands to the child of a list node
ListChildOffsets(encoder, opt, row_starts, masked_out_write_offset) ==
  Concat([i \in 1..encoder.array.len |->
            ListRow(encoder.array, encoder.nested_row_widths, opt, i, row_starts[i],
                    masked_out_write_offset).nested])

\* The cursors encode_array hands to the child of a fixed-size-list node
FslChildOffsets(encoder, opt, row_starts) ==
  LET v == encode_validity(encoder.array, opt, row_starts)
  IN  [c \in 1..(Len(row_starts) * encoder.width) |->
         LET i == ((c - 1) \div encoder.width) + 1
             j == ((c - 1) % encoder.width) + 1
         IN  v.offsets[i]
               + SumSeq([t \in 1..(j - 1) |->
                           encoder.nested_row_widths[(i - 1) * encoder.width + t]])]

\* The cursors encode_array hands to field k of a struct node
StructFieldOffsets(encoder, opt, row_starts, masked_out_write_offset, k) ==
  encode_array_fields(encoder.nested, into_nested(opt),
                      Repeat(NoDict, Len(encoder.nested)),
                      encode_validity(encoder.array, opt, row_starts).offsets,
                      masked_out_write_offset, <<>>, k - 1).offsets

\* encode_array on a node and on every node below it: each row's cursor
\* advances by the width planned for the row, and a row inside the rows'
\* part of the buffer gets exactly that many bytes at its position.
RECURSIVE NodeAdvances(_, _, _, _, _)
NodeAdvances(encoder, opt, dict, row_starts, masked_out_write_offset) ==
  LET array == encoder.array
      planned == PlannedWidths(array, opt, dict)
      r == encode_array(encoder, opt, dict, row_starts, masked_out_write_offset, <<>>)
  IN  \/ r.panic
      \/ /\ Len(planned) = Len(row_starts)
         /\ Len(r.offsets) = Len(row_starts)
         /\ \A i \in 1..Len(row_starts) :
              /\ r.offsets[i] = row_starts[i] + planned[i]
              /\ row_starts[i] < masked_out_write_offset =>
                   BytesIn(r.writes, row_starts[i], r.offsets[i]) = planned[i]
         /\ CASE encoder.state = "List" ->
                   NodeAdvances(encoder.nested[1], into_nested(opt), dict,
                                ListChildOffsets(encoder, opt, row_starts,
                                                 masked_out_write_offset),
                                masked_out_write_offset)
              [] encoder.state = "FixedSizeList" ->
                   \/ encoder.width = 0
                   \/ NodeAdvances(encoder.nested[1], into_nested(opt), dict,
                                   FslChildOffsets(encoder, opt, row_starts),
                                   masked_out_write_offset)
              [] encoder.state = "Struct" ->
                   \A k \in 1..Len(encoder.nested) :
                     NodeAdvances(encoder.nested[k], into_nested(opt), NoDict,
                                  StructFieldOffsets(encoder, opt, row_starts,
                                                     masked_out_write_offset, k),
                                  masked_out_write_offset)
              [] OTHER -> TRUE

ColumnWidth(c, i) == PlannedWidths(columns[c], fields[c].opt, fields[c].dict)[i]

\* Where the bytes of column c start in row i: the row's start (the
\* exclusive prefix sum of the widths of the rows before it) plus the widths
\* of the columns before c in this row
ColumnStart(c, i) ==
  SumSeq([r \in 1..(i - 1) |-> row_widths[r]])
    + SumSeq([b \in 1..(c - 1) |-> ColumnWidth(b, i)])

RECURSIVE ListWidths(_, _, _)
ListWidths(encoder, opt, dict) ==
  LET array == encoder.array
      planned == PlannedWidths(array, opt, dict)
      child == encoder.nested_row_widths
  IN  encoder.state = "List" =>
        /\ child = PlannedWidths(array.children[1], into_nested(opt), dict)
        /\ \A i \in 1..array.len :
             LET n == array.offsets[i + 1] - array.offsets[i]
             IN  planned[i] =
                   IF array.hv /\ ~array.validity[i] THEN 1
                   ELSE 1 + n + SumSeq([j \in 1..n |-> child[array.offsets[i] + j]])
        /\ ListWidths(encoder.nested[1], into_nested(opt), dict)

\* C15: a valid list row of n elements is planned 1 + n + the widths of its
\* elements (1 when it is empty), a null list row is planned 1 whatever
\* elements it spans, and a list without validity bitmap has only valid rows.
C15_ListRowWidth ==
  pc \in {"encode", "done"} =>
    /\ \A k \in 1..Len(encoders) : ListWidths(encoders[k], fields[k].opt, fields[k].dict)
    /\ \A i \in 1..num_rows :
         row_widths[i] = SumSeq([k \in 1..Len(encoders) |-> ColumnWidth(k, i)])

\* A planned list column with a null row spanning elements, an empty valid
\* row
C15_Witness ==
  /\ pc = "encode"
  /\ Len(encoders) = 1
  /\ encoders[1].state = "List"
  /\ num_rows = 2
  /\ encoders[1].array.hv
  /\ ~encoders[1].array.validity[1]
  /\ encoders[1].array.offsets[2] > 0
  /\ encoders[1].array.validity[2]
  /\ encoders[1].array.offsets[3] = encoders[1].array.offsets[2]
  /\ row_widths = <<1, 1>>

\* The planned widths of the elements under null list rows, at a node and at
\* every node below it
RECURSIVE MaskedOutWidths(_)
MaskedOutWidths(encoder) ==
  LET array == encoder.array
  IN  CASE encoder.state = "List" ->
             {encoder.nested_row_widths[j] :
                j \in UNION {(array.offsets[i] + 1)..array.offsets[i + 1] :
                               i \in {r \in 1..array.len :
                                        array.hv /\ ~array.validity[r]}}}
             \cup MaskedOutWidths(encoder.nested[1])
        [] encoder.state = "FixedSizeList" -> MaskedOutWidths(encoder.nested[1])
        [] encoder.state = "Struct" ->
             UNION {MaskedOutWidths(encoder.nested[k]) : k \in DOMAIN encoder.nested}
        [] OTHER -> {}

\* C16: masked_out_max_length is the largest planned width of an element
\* under a null list row over all columns planned so far and all depths, 0
\* when there is none; a later column or sibling never decreases it.
C16_MaskedOutMax ==
  /\ pc \in {"plan", "encode", "done"} =>
       masked_out_max_length
         = SetMax({0} \cup UNION {MaskedOutWidths(encoders[k]) : k \in DOMAIN encoders})
  /\ pc = "panic" => masked_out_max_length >= 0

\* Two columns are planned; the first is a list with a null row over
\* elements, the second adds nothing
C16_Witness ==
  /\ pc = "encode"
  /\ Len(encoders) = 2
  /\ MaskedOutWidths(encoders[1]) # {}
  /\ MaskedOutWidths(encoders[2]) = {}
  /\ masked_out_max_length = SetMax(MaskedOutWidths(encoders[1]))
  /\ masked_out_max_length > 0

\* The bytes buf holds at the positions pos..pos+len-1
BufSlice(buf, pos, len) == [x \in 1..len |-> buf[pos + x]]

\* enc(e): the encodings of the rows of a node materialized on their own, one
\* after the other from position 0
ElementBytes(encoder, opt, dict) ==
  LET planned == PlannedWidths(encoder.array, opt, dict)
      starts == PrefixSums(planned, 0)
      total == SumSeq(planned)
      r == encode_array(encoder, opt, dict, starts, total, <<>>)
      buf == ApplyWrites(Repeat(Uninit, total + masked_out_max_length), r.writes)
  IN  [j \in 1..Len(planned) |-> BufSlice(buf, starts[j], planned[j])]

\* What a valid list row of the elements es holds
ListRowBytes(es, opt) ==
  Concat([j \in 1..Len(es) |-> <<list_continuation_token(opt)>> \o es[j]])
    \o <<list_termination_token(opt)>>

ValidityByte(array, opt, i) ==
  IF array.hv /\ ~array.validity[i] THEN null_sentinel(opt) ELSE 1

\* C18: the fixed-size-list materializer writes one validity byte (1, or the
\* null sentinel) and then the encodings of the row's children
\* i * width .. (i + 1) * width - 1 back to back, for null rows too, and
\* leaves the cursor at start + 1 + the widths of those children; with width
\* 0 it writes the validity byte only.
C18_FixedSizeListMaterialized ==
  (/\ pc \in {"encode", "done"}
   /\ encoded >= 1
   /\ encoders[encoded].state = "FixedSizeList") =>
    LET e == encoders[encoded]
        array == e.array
        opt == fields[encoded].opt
        es == IF e.width = 0 THEN <<>>
              ELSE ElementBytes(e.nested[1], into_nested(opt), fields[encoded].dict)
    IN  \A i \in 1..array.len :
          LET start == ColumnStart(encoded, i)
              kids == [j \in 1..e.width |-> es[(i - 1) * e.width + j]]
              end == start + 1 + SumSeq([j \in 1..e.width |-> Len(kids[j])])
          IN  /\ BufSlice(buffer, start, end - start)
                   = <<ValidityByte(array, opt, i)>> \o Concat(kids)
              /\ ColumnStart(encoded + 1, i) = end
              /\ encoded = Len(encoders) => offsets[i + 1] = end

\* A fixed-size list of two strings per row has been written; its first row
\* is null over a non-empty string
C18_Witness ==
  /\ pc = "encode"
  /\ encoded = 1
  /\ encoders[1].state = "FixedSizeList"
  /\ encoders[1].width = 2
  /\ num_rows = 2
  /\ encoders[1].array.hv
  /\ encoders[1].array.validity = <<FALSE, TRUE>>
  /\ encoders[1].array.children[1].bins[1] # <<>>
  /\ buffer[1] = null_sentinel(fields[1].opt)
  /\ offsets[2] > 3

\* The sub-contexts of the fields of a struct: none, or those of the Struct
\* context
SubContexts(array, dict) ==
  IF dict.kind = "Struct" THEN dict.dicts ELSE Repeat(NoDict, Len(array.children))

\* The encodings of the rows of field k of a struct, planned and
\* materialized on its own with nested options and sub-context k
FieldBytes(array, opt, dict, k) ==
  ElementBytes(get_encoder(array.children[k], into_nested(opt), SubContexts(array, dict)[k],
                           RowWidthsNew(array.children[k].len), 0).encoder,
               into_nested(opt), SubContexts(array, dict)[k])

\* C19: a struct column whose context is absent or a Struct context with one
\* sub-context per field is encoded, row by row, as one validity byte
\* followed by the encodings of all fields in declared order, contiguous and
\* none omitted; the planned width of a row is 1 plus the widths of its
\* fields; field k is planned and materialized with sub-context k.
C19_StructMaterialized ==
  (/\ pc \in {"encode", "done"}
   /\ encoded >= 1
   /\ encoders[encoded].state = "Struct"
   /\ Len(SubContexts(encoders[encoded].array, fields[encoded].dict))
        = Len(encoders[encoded].array.children)) =>
    LET e == encoders[encoded]
        array == e.array
        opt == fields[encoded].opt
        dict == fields[encoded].dict
        nfields == Len(array.children)
        fs == [k \in 1..nfields |-> FieldBytes(array, opt, dict, k)]
    IN  /\ Len(e.nested) = nfields
        /\ \A i \in 1..array.len :
             /\ ColumnWidth(encoded, i)
                  = 1 + SumSeq([k \in 1..nfields |->
                                  PlannedWidths(array.children[k], into_nested(opt),
                                                SubContexts(array, dict)[k])[i]])
             /\ BufSlice(buffer, ColumnStart(encoded, i), ColumnWidth(encoded, i))
                  = <<ValidityByte(array, opt, i)>>
                    \o Concat([k \in 1..nfields |-> fs[k][i]])

\* A struct of a category and a number has been written under a Struct
\* context whose first sub-context maps the codes to strings; its first row
\* is null
C19_Witness ==
  /\ pc = "encode"
  /\ encoded = 1
  /\ encoders[1].state = "Struct"
  /\ fields[1].dict.kind = "Struct"
  /\ ~fields[1].dict.dicts[1].is_enum
  /\ is_ordered(fields[1].opt)
  /\ num_rows = 2
  /\ encoders[1].array.hv
  /\ encoders[1].array.validity = <<FALSE, TRUE>>
  /\ encoders[1].array.children[1].values = <<1, 0>>
  /\ row_widths[1] < row_widths[2]
  /\ buffer[1] = null_sentinel(fields[1].opt)

\* The constant width of a column of fixed-size type: 0 for null, 1 for
\* boolean, the encoded length of a number, 1 + width * child for a
\* fixed-size list, 1 + the fields for a struct; NoSize when the column or a
\* descendant is variable-length (strings, binaries, lists, categories
\* encoded as their strings) or not supported
RECURSIVE FixedWidth(_, _, _)
FixedWidth(array, opt, dict) ==
  LET dicts == SubContexts(array, dict)
      kids == [k \in DOMAIN array.children |->
                 FixedWidth(array.children[k], opt,
                            IF array.dtype = "Struct" THEN dicts[k] ELSE dict)]
  IN  IF dict.kind = "Categorical" /\ ~dict.is_enum /\ ~opt.no_order THEN NoSize
      ELSE IF array.dtype = "Null" THEN 0
      ELSE IF array.dtype = "Boolean" THEN 1
      ELSE IF array.dtype \in {"Int8", "UInt8"} THEN 1 + 1
      ELSE IF array.dtype \in {"Int16", "UInt16"} THEN 1 + 2
      ELSE IF array.dtype \in {"Int32", "UInt32"} THEN 1 + 4
      ELSE IF array.dtype \in {"Int64", "UInt64"} THEN 1 + 8
      ELSE IF array.dtype \in {"FixedSizeList", "Struct"}
      THEN IF \E k \in DOMAIN kids : kids[k] = NoSize THEN NoSize
           ELSE IF array.dtype = "Struct" THEN 1 + SumSeq(kids)
           ELSE 1 + array.width * kids[1]
      ELSE NoSize

\* fixed_size on a column and on every column below it: it is the constant
\* width of the type, and for a fixed-size list or struct the general path
\* of get_encoder computes that width for every row
RECURSIVE FixedSizeAgrees(_, _, _)
FixedSizeAgrees(array, opt, dict) ==
  LET w == fixed_size(array, opt, dict)
      general == get_encoder_general(array, opt, dict, RowWidthsNew(array.len), 0)
  IN  /\ w = FixedWidth(array, opt, dict)
      /\ (w # NoSize /\ array.dtype \in {"FixedSizeList", "Struct"}) =>
           (~general.panic /\ general.row_widths = Repeat(w, array.len))
      /\ w # NoSize => PlannedWidths(array, opt, dict) = Repeat(w, array.len)
      /\ \A k \in DOMAIN array.children :
           FixedSizeAgrees(array.children[k], opt,
                           IF array.dtype = "Struct" THEN SubContexts(array, dict)[k]
                           ELSE dict)

\* C20: fixed_size returns a width exactly for null, boolean, fixed-width
\* numeric columns and fixed-size lists and structs whose elements and
\* fields are recursively fixed-size, and none as soon as a descendant is
\* variable-length; the width (0, 1, the numeric length, 1 + width * child,
\* 1 + sum of fields) is the width the general path of get_encoder computes
\* for every row of the same column.
C20_FixedSize ==
  pc \in {"encode", "done"} =>
    \A k \in 1..Len(encoders) : FixedSizeAgrees(columns[k], fields[k].opt, fields[k].dict)

\* A fixed-size list of structs of a boolean and a number is planned on the
\* fast path with the width the general path computes
C20_Witness ==
  /\ pc = "encode"
  /\ Len(encoders) = 1
  /\ num_rows = 2
  /\ columns[1].dtype = "FixedSizeList"
  /\ columns[1].children[1].dtype = "Struct"
  /\ fixed_size(columns[1], fields[1].opt, fields[1].dict) = 1 + (1 + 1 + 2)
  /\ row_widths = <<5, 5>>
  /\ get_encoder_general(columns[1], fields[1].opt, fields[1].dict, RowWidthsNew(2), 0).row_widths
       = <<5, 5>>

\* A categorical column planned and materialized on its own: with ordered
\* options and a non-enum context the widths are those of the mapped strings
\* and the bytes are the mapped strings; otherwise the width is that of the
\* code and the bytes are the physical code.  Children of lists and
\* fixed-size lists and the fields of structs are visited with the options
\* and contexts they are encoded with.
RECURSIVE CategoricalAgrees(_, _, _)
CategoricalAgrees(array, opt, dict) ==
  IF dict.kind = "Categorical" /\ array.dtype \in {"UInt8", "UInt16", "UInt32"}
  THEN LET plan == get_encoder(array, opt, dict, RowWidthsNew(array.len), 0)
           bytes == ElementBytes(plan.encoder, opt, dict)
       IN  /\ ~plan.panic
           /\ \A i \in 1..array.len :
                LET valid == ~array.hv \/ array.validity[i]
                    str == dict.mapping[array.values[i] + 1]
                IN  IF ~opt.no_order /\ ~dict.is_enum
                    THEN /\ plan.row_widths[i] = (IF valid THEN 1 + Len(str) ELSE 1)
                         /\ bytes[i] = encode_str_item(str, valid, opt)
                    ELSE /\ plan.row_widths[i] = 1 + NativeSize(array.dtype)
                         /\ bytes[i] = numeric_encode_item(array.dtype, array.values[i],
                                                            valid, opt)
  ELSE \A k \in DOMAIN array.children :
         CategoricalAgrees(array.children[k], into_nested(opt),
                           IF array.dtype = "Struct" THEN SubContexts(array, dict)[k]
                           ELSE dict)

\* A context with a categorical mapping in it
RECURSIVE HasCategorical(_)
HasCategorical(dict) ==
  \/ dict.kind = "Categorical"
  \/ \E k \in DOMAIN dict.dicts : HasCategorical(dict.dicts[k])

\* C21: a categorical column is planned as variable-width from the lengths
\* of the mapped strings exactly when it is ordered and non-enum, and then
\* the mapped strings are written; otherwise it is planned with the fixed
\* width of the code and the physical code is written; the assertion of the
\* non-fixed categorical path never fails, at any nesting depth.
C21_CategoricalRepresentation ==
  /\ \A k \in DOMAIN fields :
       (k <= Len(columns) /\ HasCategorical(fields[k].dict)) =>
         /\ pc # "panic"
         /\ CategoricalAgrees(columns[k], fields[k].opt, fields[k].dict)
  /\ (/\ pc \in {"encode", "done"}
      /\ encoded >= 1
      /\ fields[encoded].dict.kind = "Categorical"
      /\ encoders[encoded].state = "None") =>
       \A i \in 1..num_rows :
         BufSlice(buffer, ColumnStart(encoded, i), ColumnWidth(encoded, i))
           = ElementBytes(encoders[encoded], fields[encoded].opt, fields[encoded].dict)[i]

\* An ordered non-enum categorical column has been written as its strings
C21_Witness ==
  /\ pc = "done"
  /\ Len(columns) = 1
  /\ columns[1].dtype = "UInt8"
  /\ fields[1].dict.kind = "Categorical"
  /\ ~fields[1].dict.is_enum
  /\ ~fields[1].opt.no_order
  /\ num_rows = 2
  /\ columns[1].values = <<0, 1>>
  /\ columns[1].hv /\ columns[1].validity = <<TRUE, TRUE>>
  /\ rows.offsets = <<0, 3, 5>>

\* The nodes get_encoder plans below (and including) a column, each as
\* <<path, options, context>>, the path being the child indices from the
\* column down
RECURSIVE PlanVisits(_, _, _, _)
PlanVisits(array, opt, dict, path) ==
  LET size == fixed_size(array, opt, dict)
      Fields(o, dicts, n) ==
        UNION {PlanVisits(array.children[k], o, dicts[k], Append(path, k)) : k \in 1..n}
  IN  {<<path, opt, dict>>} \cup
      IF size = Unreachable THEN {}
      ELSE IF array.dtype \in {"FixedSizeList"} \cup ListTypes
      THEN PlanVisits(array.children[1], into_nested(opt), dict, Append(path, 1))
      ELSE IF array.dtype = "Struct"
      THEN IF dict.kind = "None"
           THEN Fields(into_nested(opt), Repeat(NoDict, Len(array.children)),
                       Len(array.children))
           ELSE IF dict.kind = "Struct"
           THEN Fields(IF size # NoSize THEN opt ELSE into_nested(opt), dict.dicts,
                       Min(Len(array.children), Len(dict.dicts)))
           ELSE {}
      ELSE {}

\* The nodes encode_array materializes below (and including) a plan node
RECURSIVE EncodeVisits(_, _, _, _)
EncodeVisits(encoder, opt, dict, path) ==
  {<<path, opt, dict>>} \cup
  CASE encoder.state = "List" ->
         EncodeVisits(encoder.nested[1], into_nested(opt), dict, Append(path, 1))
    [] encoder.state = "FixedSizeList" ->
         IF encoder.width = 0 THEN {}
         ELSE EncodeVisits(encoder.nested[1], into_nested(opt), dict, Append(path, 1))
    [] encoder.state = "Struct" ->
         IF dict.kind \notin {"None", "Struct"} THEN {}
         ELSE UNION {EncodeVisits(encoder.nested[k], into_nested(opt),
                                  IF dict.kind = "None" THEN NoDict ELSE dict.dicts[k],
                                  Append(path, k)) :
                     k \in 1..(IF dict.kind = "None" THEN Len(encoder.nested)
                                ELSE Min(Len(encoder.nested), Len(dict.dicts)))}
    [] OTHER -> {}

\* A struct with a Struct context that is planned on the fixed-size fast path
FastStructWithContext(k) ==
  /\ columns[k].dtype = "Struct"
  /\ fields[k].dict.kind = "Struct"
  /\ fixed_size(columns[k], fields[k].opt, fields[k].dict) # NoSize

\* C22: every node the materializer visits is visited with the options and
\* the context the plan builder used for that node: children of lists,
\* fixed-size lists and structs get the nested form of the parent's options
\* in both passes and struct field k gets sub-context k in both passes, on
\* the fast path and on the general path.
C22_SameOptionsBothPasses ==
  pc \in {"encode", "done"} =>
    \A k \in 1..Len(encoders) :
      EncodeVisits(encoders[k], fields[k].opt, fields[k].dict, <<>>)
        \subseteq PlanVisits(columns[k], fields[k].opt, fields[k].dict, <<>>)

\* The same with the structs left out that have a Struct context and are
\* planned on the fast path
C22_SameOptionsOffFastStructContext ==
  pc \in {"encode", "done"} =>
    \A k \in 1..Len(encoders) :
      ~FastStructWithContext(k) =>
        EncodeVisits(encoders[k], fields[k].opt, fields[k].dict, <<>>)
          \subseteq PlanVisits(columns[k], fields[k].opt, fields[k].dict, <<>>)

\* The encodings of the rows of a column planned and materialized on its own
ColumnBytes(array, opt, dict) ==
  ElementBytes(get_encoder(array, opt, dict, RowWidthsNew(array.len), 0).encoder, opt, dict)

\* The rows of the fixed-size-list column k are planned and, once written,
\* hold after the validity byte what the flattened child column encodes to
\* on its own with the options o
FixedSizeListCollapse(k, o) ==
  LET array == columns[k]
      w == array.width
      cw == PlannedWidths(array.children[1], o, fields[k].dict)
      cb == ColumnBytes(array.children[1], o, fields[k].dict)
  IN  \A i \in 1..array.len :
        /\ ColumnWidth(k, i) = 1 + SumSeq([j \in 1..w |-> cw[(i - 1) * w + j]])
        /\ k <= encoded =>
             BufSlice(buffer, ColumnStart(k, i) + 1, ColumnWidth(k, i) - 1)
               = Concat([j \in 1..w |-> cb[(i - 1) * w + j]])

\* C23 as stated: a fixed-size-list column of width w over n rows encoded
\* with options o holds, for each row after its validity byte, the encodings
\* of the child elements i * w .. (i + 1) * w - 1 as produced by encoding the
\* flattened child column on its own with the same options o.
C23_CollapseSameOptions ==
  pc \in {"encode", "done"} =>
    \A k \in 1..Len(encoders) :
      columns[k].dtype = "FixedSizeList" => FixedSizeListCollapse(k, fields[k].opt)

\* C23: a fixed-size-list column of width w over n rows encoded with options
\* o holds, for each row after its validity byte, the encodings of the child
\* elements i * w .. (i + 1) * w - 1 as produced by encoding the flattened
\* child column on its own with the nested form of o (nulls placed by the
\* direction), the row widths being 1 plus the sums of the child widths.
C23_CollapseNestedOptions ==
  pc \in {"encode", "done"} =>
    \A k \in 1..Len(encoders) :
      columns[k].dtype = "FixedSizeList" =>
        FixedSizeListCollapse(k, into_nested(fields[k].opt))

\* A fixed-size list with a null child element has been written with options
\* that differ from their nested form
C23_Witness ==
  /\ pc = "done"
  /\ Len(columns) = 1
  /\ columns[1].dtype = "FixedSizeList"
  /\ columns[1].width = 1
  /\ num_rows = 2
  /\ columns[1].children[1].dtype = "Int8"
  /\ columns[1].children[1].hv
  /\ columns[1].children[1].validity = <<FALSE, TRUE>>
  /\ fields[1].opt.nulls_last # fields[1].opt.descending
  /\ FixedSizeListCollapse(1, into_nested(fields[1].opt))
  /\ ~FixedSizeListCollapse(1, fields[1].opt)

\* A column of an unsupported type or with a descendant of one
RECURSIVE HasUnsupported(_)
HasUnsupported(array) ==
  \/ array.dtype \in UnsupportedTypes
  \/ \E c \in DOMAIN array.children : HasUnsupported(array.children[c])

\* The columns of the call that are or hold an unsupported type
UnsupportedAt == {k \in 1..Min(Len(columns), Len(fields)) : HasUnsupported(columns[k])}

\* C24: a column whose type is not a supported physical representation, at
\* top level or as a nested child, makes the plan builder panic during the
\* width pass: no plan is returned for it and no byte of output is written
\* before the panic.
C24_UnsupportedPanics ==
  UnsupportedAt # {} =>
    LET k == CHOOSE x \in UnsupportedAt : \A y \in UnsupportedAt : x <= y
    IN  /\ pc \in {"plan", "panic"}
        /\ Len(encoders) < k
        /\ (pc = "plan" /\ Len(encoders) = k - 1) =>
             get_encoder(columns[k], fields[k].opt, fields[k].dict, row_widths,
                         masked_out_max_length).panic
        /\ pc = "panic" => Len(encoders) = k - 1
        /\ writes = <<>>
        /\ buffer = <<>>
        /\ offsets = <<>>
        /\ rows \in {EmptyRows, UsedRows}

\* The second column of a call is of an unsupported type: the first one is
\* planned, the width pass panics, nothing is written
C24_Witness ==
  /\ pc = "panic"
  /\ Len(columns) = 2
  /\ columns[2].dtype = "Date32"
  /\ num_rows = 2
  /\ Len(encoders) = 1
  /\ row_widths # <<0, 0>>
  /\ writes = <<>>
  /\ buffer = <<>>

\* C27: for a list column whose offsets cover the whole child array, the
\* child-cursor sequence handed to the child encoder has one entry per child
\* element, the k-th belonging to child element k: the position directly
\* after the element's continuation token for an element of a valid row, the
\* masked-out offset for an element under a null row; no entry of a previous
\* list or sibling column remains.  (The child encoder advances entry k by
\* the width of element k, which is what the scratch holds afterwards.)
C27_ChildCursors ==
  (/\ pc \in {"encode", "done"}
   /\ encoded >= 1
   /\ encoders[encoded].state = "List"
   /\ encoders[encoded].array.offsets[1] = 0
   /\ encoders[encoded].array.offsets[num_rows + 1] = encoders[encoded].array.children[1].len) =>
    LET e == encoders[encoded]
        array == e.array
        opt == fields[encoded].opt
        handed == [k \in DOMAIN scratches |-> scratches[k] - e.nested_row_widths[k]]
    IN  /\ Len(scratches) = array.children[1].len
        /\ \A i \in 1..array.len :
             \A k \in (array.offsets[i] + 1)..array.offsets[i + 1] :
               IF array.hv /\ ~array.validity[i]
               THEN handed[k] = total_num_bytes
               ELSE /\ handed[k]
                        = ColumnStart(encoded, i) + (k - array.offsets[i])
                          + SumSeq([t \in (array.offsets[i] + 1)..(k - 1) |->
                                      e.nested_row_widths[t]])
                    /\ buffer[handed[k]] = list_continuation_token(opt)

\* Two list columns have been written one after the other, the second with
\* fewer elements than the first
C27_Witness ==
  /\ pc = "encode"
  /\ encoded = 2
  /\ encoders[1].state = "List"
  /\ encoders[2].state = "List"
  /\ encoders[1].array.children[1].len = 2
  /\ encoders[2].array.children[1].len = 1
  /\ num_rows = 2
  /\ encoders[1].array.hv
  /\ ~encoders[1].array.validity[1]
  /\ encoders[1].array.offsets[2] = 1
  /\ Len(scratches) = 1
  /\ scratches[1] < total_num_bytes

\* ------------------------------------------- RowEncodedHashHotGrouper
MaxGroups == 2
MaxBatch == 2
MaxLog == 1

\* One row of a RowEncodedKeys: hash is <<>> for a null hash, <<h>> otherwise
HashKeyRows ==
  {[hash |-> <<>>, key |-> <<7>>], [hash |-> <<0>>, key |-> <<7>>],
   [hash |-> <<0>>, key |-> <<3>>], [hash |-> <<1>>, key |-> <<8, 9>>]}

\* HashKeys::RowEncoded
HashKeys == UNION {[1..n -> HashKeyRows] : n \in 0..MaxBatch}

\* EvictIdx::new
EvictIdx(idx, should_evict) == [idx |-> idx, should_evict |-> should_evict]

\* The vectors a caller passes to insert_keys
IdxVectors ==
  {[hot_idxs |-> <<>>, hot_group_idxs |-> <<>>, cold_idxs |-> <<>>],
   [hot_idxs |-> <<5>>, hot_group_idxs |-> <<EvictIdx(0, FALSE)>>, cold_idxs |-> <<6>>]}

\* FixedIndexTable::insert_key as its caller sees it: a key already in the
\* table gives its slot; another key is refused (choice 0), put into a free
\* slot, or put into a filled slot whose hash and key are handed to evict
\* first.  Which of these happens is the table's choice.
insert_key(t, h, key, choice) ==
  LET found == {s \in 1..Len(t) : t[s].hash = h /\ t[s].key = key}
      slot == [hash |-> h, key |-> key]
  IN  IF found # {}
      THEN [table |-> t, g |-> <<EvictIdx((CHOOSE s \in found : TRUE) - 1, FALSE)>>,
            evict |-> <<>>]
      ELSE IF choice = 0
      THEN [table |-> t, g |-> <<>>, evict |-> <<>>]
      ELSE IF choice > Len(t)
      THEN [table |-> Append(t, slot), g |-> <<EvictIdx(Len(t), FALSE)>>, evict |-> <<>>]
      ELSE [table |-> [t EXCEPT ![choice] = slot], g |-> <<EvictIdx(choice - 1, TRUE)>>,
            evict |-> <<t[choice]>>]

\* Offsets::try_push
try_push(offs, length) == Append(offs, offs[Len(offs)] + length)

\* An eviction callback that logs the hash and the offset but not the bytes
evict_callback_without_data(st, ev_h, ev_k) ==
  [st EXCEPT !.evicted_key_hashes = Append(@, ev_h),
             !.evicted_key_offsets = try_push(@, Len(ev_k))]

\* The closure handed to insert_key
evict_callback(st, ev_h, ev_k) ==
  [st EXCEPT !.evicted_key_hashes = Append(@, ev_h),
             !.evicted_key_offsets = try_push(@, Len(ev_k)),
             !.evicted_key_data = @ \o ev_k]

\* The groups of t that are no longer in u
Left(t, u) == SelectSeq(t, LAMBDA e : \A s \in 1..Len(u) : u[s] # e)

\* The closure handed to for_each_hash that also counts a null hash as cold
for_each_hash_body_null_cold(st, row, choice, idx) ==
  IF row.hash = <<>>
  THEN [st EXCEPT !.cold_idxs = Append(@, idx)]
  ELSE LET r == insert_key(st.table, row.hash[1], row.key, choice)
           logged == IF r.evict = <<>> THEN st
                     ELSE evict_callback(st, r.evict[1].hash, r.evict[1].key)
           moved == [logged EXCEPT !.table = r.table,
                                   !.evicted = @ \o Left(st.table, r.table)]
       IN  IF r.g # <<>>
           THEN [moved EXCEPT !.hot_idxs = Append(@, idx),
                              !.hot_group_idxs = Append(@, r.g[1])]
           ELSE [moved EXCEPT !.cold_idxs = Append(@, idx)]

\* The closure handed to for_each_hash, for the row at idx
for_each_hash_body(st, row, choice, idx) ==
  IF row.hash = <<>>
  THEN st
  ELSE LET r == insert_key(st.table, row.hash[1], row.key, choice)
           logged == IF r.evict = <<>> THEN st
                     ELSE evict_callback(st, r.evict[1].hash, r.evict[1].key)
           moved == [logged EXCEPT !.table = r.table,
                                   !.evicted = @ \o Left(st.table, r.table)]
       IN  IF r.g # <<>>
           THEN [moved EXCEPT !.hot_idxs = Append(@, idx),
                              !.hot_group_idxs = Append(@, r.g[1])]
           ELSE [moved EXCEPT !.cold_idxs = Append(@, idx)]

RECURSIVE for_each_hash(_, _, _, _)
for_each_hash(st, keys, choices, idx) ==
  IF idx >= Len(keys)
  THEN st
  ELSE for_each_hash(for_each_hash_body(st, keys[idx + 1], choices[idx + 1], idx),
                     keys, choices, idx + 1)

\* RowEncodedHashHotGrouper::new
HotInit ==
  /\ EncodeIdle
  /\ ApplyIdle
  /\ MomentIdle
  /\ CacheIdle
  /\ table = <<>>
  /\ evicted_key_hashes = <<>>
  /\ evicted_key_data = <<>>
  /\ evicted_key_offsets = OffsetsNew
  /\ hot_idxs = <<>>
  /\ hot_group_idxs = <<>>
  /\ cold_idxs = <<>>
  /\ hot_call = [op |-> "new"]
  /\ hot_evicted = <<>>

\* num_evictions
num_evictions == Len(evicted_key_offsets) - 1

\* insert_keys
InsertKeys ==
  /\ hot_call.op # "idle"
  /\ num_evictions <= MaxLog
  /\ \E keys \in HashKeys, given \in IdxVectors :
       \E choices \in [1..Len(keys) -> 0..MaxGroups] :
         LET st == for_each_hash(
                     [table |-> table,
                      evicted_key_hashes |-> evicted_key_hashes,
                      evicted_key_data |-> evicted_key_data,
                      evicted_key_offsets |-> evicted_key_offsets,
                      hot_idxs |-> given.hot_idxs,
                      hot_group_idxs |-> given.hot_group_idxs,
                      cold_idxs |-> given.cold_idxs,
                      evicted |-> hot_evicted],
                     keys, choices, 0)
         IN  /\ table' = st.table
             /\ evicted_key_hashes' = st.evicted_key_hashes
             /\ evicted_key_data' = st.evicted_key_data
             /\ evicted_key_offsets' = st.evicted_key_offsets
             /\ hot_idxs' = st.hot_idxs
             /\ hot_group_idxs' = st.hot_group_idxs
             /\ cold_idxs' = st.cold_idxs
             /\ hot_evicted' = st.evicted
             /\ hot_call' = [op |-> "insert_keys", keys |-> keys, given |-> given]
  /\ UNCHANGED not_hot_vars

\* take_evicted_keys
TakeEvictedKeys ==
  /\ hot_call.op # "idle"
  /\ hot_call' = [op |-> "take_evicted_keys",
                  hashes |-> evicted_key_hashes,
                  keys |-> [offsets |-> evicted_key_offsets, values |-> evicted_key_data],
                  evicted |-> hot_evicted,
                  table |-> table]
  /\ evicted_key_hashes' = <<>>
  /\ evicted_key_data' = <<>>
  /\ evicted_key_offsets' = OffsetsNew
  /\ hot_evicted' = <<>>
  /\ UNCHANGED <<table, hot_idxs, hot_group_idxs, cold_idxs>>
  /\ UNCHANGED not_hot_vars

HotNext == InsertKeys \/ TakeEvictedKeys

HotSpec == HotInit /\ [][HotNext]_vars

\* The part of s after its first n entries
Appended(s, n) == SubSeq(s, n + 1, Len(s))

\* s is strictly increasing
Increasing(s) == \A a, b \in 1..Len(s) : a < b => s[a] < s[b]

\* C28: insert_keys appends every key index with a non-null hash to exactly
\* one of hot_idxs and cold_idxs, in increasing index order, and one group
\* index to hot_group_idxs per index appended to hot_idxs; an index with a
\* null hash is appended to neither, and the appended hot and cold indices
\* are as many as the non-null hashes.
C28_InsertKeysPartition ==
  hot_call.op = "insert_keys" =>
    LET keys == hot_call.keys
        given == hot_call.given
        hot == Appended(hot_idxs, Len(given.hot_idxs))
        groups == Appended(hot_group_idxs, Len(given.hot_group_idxs))
        cold == Appended(cold_idxs, Len(given.cold_idxs))
        InHot(idx) == {k \in 1..Len(hot) : hot[k] = idx}
        InCold(idx) == {k \in 1..Len(cold) : cold[k] = idx}
        non_null == {idx \in 0..(Len(keys) - 1) : keys[idx + 1].hash # <<>>}
    IN  /\ SubSeq(hot_idxs, 1, Len(given.hot_idxs)) = given.hot_idxs
        /\ SubSeq(hot_group_idxs, 1, Len(given.hot_group_idxs)) = given.hot_group_idxs
        /\ SubSeq(cold_idxs, 1, Len(given.cold_idxs)) = given.cold_idxs
        /\ Increasing(hot)
        /\ Increasing(cold)
        /\ \A idx \in 0..(Len(keys) - 1) :
             Cardinality(InHot(idx)) + Cardinality(InCold(idx))
               = IF idx \in non_null THEN 1 ELSE 0
        /\ \A k \in 1..Len(hot) : hot[k] \in non_null
        /\ \A k \in 1..Len(cold) : cold[k] \in non_null
        /\ Len(groups) = Len(hot)
        /\ Len(hot_group_idxs) = Len(hot_idxs)
        /\ Len(hot) + Len(cold) = Cardinality(non_null)

\* A batch with a null hash between a hot and a cold key, appended to
\* vectors that were not empty
C28_Witness ==
  /\ hot_call.op = "insert_keys"
  /\ Len(hot_call.keys) = MaxBatch
  /\ hot_call.keys[1].hash = <<>>
  /\ hot_call.keys[2].hash # <<>>
  /\ hot_call.given.hot_idxs # <<>>
  /\ cold_idxs = <<6, 1>>
  /\ Len(table) = MaxGroups

\* The keys of a LargeBinaryArray given by offsets and values
BinaryValues(arr) ==
  [k \in 1..(Len(arr.offsets) - 1) |->
     SubSeq(arr.values, arr.offsets[k] + 1, arr.offsets[k + 1])]

\* The log matches the groups evicted, in eviction order
LogIs(hashes, offs, data, evicted) ==
  /\ Len(offs) - 1 = Len(evicted)
  /\ Len(hashes) = Len(evicted)
  /\ hashes = [k \in 1..Len(evicted) |-> evicted[k].hash] \o <<>>
  /\ data = Concat([k \in 1..Len(evicted) |-> evicted[k].key])
  /\ offs[1] = 0
  /\ offs[Len(offs)] = Len(data)
  /\ BinaryValues([offsets |-> offs, values |-> data])
       = [k \in 1..Len(evicted) |-> evicted[k].key] \o <<>>

\* C29: after any sequence of insert_keys and take_evicted_keys calls the
\* eviction log is consistent: num_evictions() is the number of keys evicted
\* since the last take and the number of logged hashes, the logged bytes are
\* the evicted keys in eviction order, delimited by the logged offsets (the
\* last offset is the data length); take_evicted_keys returns exactly those
\* hashes and keys, each once, and leaves num_evictions() = 0 and the table
\* of hot groups as it was.
C29_EvictionLog ==
  hot_call.op # "idle" =>
    /\ num_evictions = Len(hot_evicted)
    /\ LogIs(evicted_key_hashes, evicted_key_offsets, evicted_key_data, hot_evicted)
    /\ hot_call.op = "take_evicted_keys" =>
         /\ LogIs(hot_call.hashes, hot_call.keys.offsets, hot_call.keys.values,
                  hot_call.evicted)
         /\ num_evictions = 0
         /\ table = hot_call.table

\* A take that returned two evicted keys of different lengths
C29_Witness ==
  /\ hot_call.op = "take_evicted_keys"
  /\ Len(hot_call.hashes) = 2
  /\ hot_call.keys.offsets = <<0, 2, 3>>
  /\ hot_call.keys.values = <<8, 9, 7>>
  /\ Len(table) = MaxGroups

\* ------------------------------------------------------- MomentWindow
MaxLen == 3

\* The values of the slice; "NaN" and "inf" are the non-finite ones
SliceValues == {"1.0", "2.0", "NaN", "inf"}

\* IsFloat::is_finite
is_finite(val) == val \in {"1.0", "2.0"}

\* M::new and StateUpdate::reset: the state of no value.  The state is kept
\* as the number of times each value is inserted and not removed.
MomentDefault == [x \in {"0.0", "1.0", "2.0"} |-> 0]

\* StateUpdate::insert_one
insert_one(m, x) == [m EXCEPT ![x] = @ + 1]

\* StateUpdate::remove_one
remove_one(m, x) == [m EXCEPT ![x] = @ - 1]

\* The slices and validities a window is built on: validity is <<>> for the
\* window without nulls, <<bitmap>> for the window with nulls
WindowInputs ==
  UNION {[slice : [1..n -> SliceValues], validity : {<<>>} \cup {<<b>> : b \in [1..n -> BOOLEAN]}] :
           n \in 0..MaxLen}

\* MomentWindow::new_impl
new_impl(slice, validity) ==
  [slice |-> slice, validity |-> validity, moment |-> MomentDefault,
   non_finite_count |-> 0, null_count |-> 0, last_start |-> 0, last_end |-> 0,
   underflow |-> FALSE]

\* MomentWindow::reset
reset(w) == [w EXCEPT !.moment = MomentDefault, !.non_finite_count = 0, !.null_count = 0]

\* MomentWindow::insert
insert(w, val) ==
  IF is_finite(val)
  THEN [w EXCEPT !.moment = insert_one(@, val)]
  ELSE [w EXCEPT !.moment = insert_one(@, "0.0"), !.non_finite_count = @ + 1]

\* MomentWindow::remove that treats every value as finite
remove_as_finite(w, val) ==
  IF is_finite(val)
  THEN [w EXCEPT !.moment = remove_one(@, val)]
  ELSE [w EXCEPT !.moment = remove_one(@, "0.0")]

\* MomentWindow::remove; a decrement at zero wraps (or panics where overflow
\* checks are on), which underflow records
remove(w, val) ==
  IF is_finite(val)
  THEN [w EXCEPT !.moment = remove_one(@, val)]
  ELSE [w EXCEPT !.moment = remove_one(@, "0.0"),
                 !.non_finite_count = @ - 1,
                 !.underflow = @ \/ w.non_finite_count = 0]

\* MomentWindow::finalize, as far as the window decides it: NaN when a
\* non-finite value is in the window, else what the moment finalizes to
finalize(w) ==
  IF w.non_finite_count > 0 THEN [nan |-> TRUE] ELSE [nan |-> FALSE, moment |-> w.moment]

\* The reset branch at the start of both updates
reset_if_disjoint(w, start) ==
  IF start >= w.last_end
  THEN [reset(w) EXCEPT !.last_start = start, !.last_end = start]
  ELSE w

RECURSIVE remove_range(_, _, _)
\* for val in &self.slice[lo..hi] { self.remove(*val) }
remove_range(w, lo, hi) ==
  IF lo >= hi THEN w ELSE remove_range(remove(w, w.slice[lo + 1]), lo + 1, hi)

RECURSIVE insert_range(_, _, _)
\* for val in &self.slice[lo..hi] { self.insert(*val) }
insert_range(w, lo, hi) ==
  IF lo >= hi THEN w ELSE insert_range(insert(w, w.slice[lo + 1]), lo + 1, hi)

\* RollingAggWindowNoNulls::update
update_no_nulls(w, start, end) ==
  LET w1 == reset_if_disjoint(w, start)
      w2 == remove_range(w1, w1.last_start, start)
      w3 == insert_range(w2, w2.last_end, end)
  IN  [w3 EXCEPT !.last_start = start, !.last_end = end]

RECURSIVE remove_range_nulls(_, _, _)
\* the first loop of RollingAggWindowNulls::update
remove_range_nulls(w, lo, hi) ==
  IF lo >= hi
  THEN w
  ELSE remove_range_nulls(
         IF w.validity[1][lo + 1]
         THEN remove(w, w.slice[lo + 1])
         ELSE [w EXCEPT !.null_count = @ - 1, !.underflow = @ \/ w.null_count = 0],
         lo + 1, hi)

RECURSIVE insert_range_nulls(_, _, _)
\* the second loop of RollingAggWindowNulls::update
insert_range_nulls(w, lo, hi) ==
  IF lo >= hi
  THEN w
  ELSE insert_range_nulls(
         IF w.validity[1][lo + 1]
         THEN insert(w, w.slice[lo + 1])
         ELSE [w EXCEPT !.null_count = @ + 1],
         lo + 1, hi)

\* RollingAggWindowNulls::update
update_nulls(w, start, end) ==
  LET w1 == reset_if_disjoint(w, start)
      w2 == remove_range_nulls(w1, w1.last_start, start)
      w3 == insert_range_nulls(w2, w2.last_end, end)
  IN  [w3 EXCEPT !.last_start = start, !.last_end = end]

\* RollingAggWindowNulls::is_valid
is_valid(w, min_periods) == ((w.last_end - w.last_start) - w.null_count) >= min_periods

\* MomentWindow::new_impl, before the first update
MomentInit ==
  /\ EncodeIdle
  /\ ApplyIdle
  /\ HotIdle
  /\ CacheIdle
  /\ \E input \in WindowInputs : window = new_impl(input.slice, input.validity)
  /\ window_call = [op |-> "new_impl"]
  /\ window_underflow = FALSE

\* The (start, end) of a call: in bounds, and neither before the last call's
Ranges(w) ==
  {r \in (0..Len(w.slice)) \X (0..Len(w.slice)) :
     r[1] <= r[2] /\ r[1] >= w.last_start /\ r[2] >= w.last_end}

\* RollingAggWindowNoNulls::update (also the update inside new)
UpdateNoNulls ==
  /\ window_call.op # "idle"
  /\ window.validity = <<>>
  /\ \E r \in Ranges(window) :
       LET w == update_no_nulls(window, r[1], r[2])
       IN  /\ window' = w
           /\ window_underflow' = w.underflow
           /\ window_call' = [op |-> "update", start |-> r[1], end |-> r[2],
                              last_end |-> window.last_end,
                              was_reset |-> r[1] >= window.last_end,
                              out |-> finalize(w)]
  /\ UNCHANGED not_moment_vars

\* RollingAggWindowNulls::update (also the update inside new)
UpdateNulls ==
  /\ window_call.op # "idle"
  /\ window.validity # <<>>
  /\ \E r \in Ranges(window) :
       LET w == update_nulls(window, r[1], r[2])
       IN  /\ window' = w
           /\ window_underflow' = w.underflow
           /\ window_call' = [op |-> "update", start |-> r[1], end |-> r[2],
                              last_end |-> window.last_end,
                              was_reset |-> r[1] >= window.last_end,
                              out |-> finalize(w)]
  /\ UNCHANGED not_moment_vars

MomentNext == UpdateNoNulls \/ UpdateNulls

MomentSpec == MomentInit /\ [][MomentNext]_vars

\* Position idx of the window's slice holds a value
WindowValid(w, idx) == w.validity = <<>> \/ w.validity[1][idx + 1]

\* The window freshly built on [start, end)
FreshWindow(w, start, end) ==
  LET valid == {idx \in start..(end - 1) : WindowValid(w, idx)}
      Inserted(idx) == IF is_finite(w.slice[idx + 1]) THEN w.slice[idx + 1] ELSE "0.0"
  IN  [moment |-> [x \in DOMAIN MomentDefault |->
                     Cardinality({idx \in valid : Inserted(idx) = x})],
       non_finite_count |-> Cardinality({idx \in valid : ~is_finite(w.slice[idx + 1])}),
       null_count |-> Cardinality((start..(end - 1)) \ valid),
       valid_count |-> Cardinality(valid)]

\* C30: for update calls with start <= end <= slice length and start and end
\* each non-decreasing, after every call the window is the window freshly
\* built on [start, end): the values inserted and not removed are the valid
\* values at start..end-1, non_finite_count counts the valid non-finite ones,
\* null_count the null positions (is_valid(min_periods) iff the valid
\* positions are at least min_periods), no counter underflows, and a call
\* with start >= the previous end resets the state before inserting.
C30_UpdateIsFresh ==
  window_call.op = "update" =>
    LET fresh == FreshWindow(window, window_call.start, window_call.end)
    IN  /\ window.last_start = window_call.start
        /\ window.last_end = window_call.end
        /\ window.moment = fresh.moment
        /\ window.non_finite_count = fresh.non_finite_count
        /\ window.null_count = fresh.null_count
        /\ \A min_periods \in 0..(MaxLen + 1) :
             is_valid(window, min_periods) <=> fresh.valid_count >= min_periods
        /\ ~window_underflow
        /\ window_call.was_reset <=> window_call.start >= window_call.last_end
        /\ window_call.out.nan <=> fresh.non_finite_count > 0

\* A window with nulls slid by one position over a null, a non-finite and a
\* finite value: the null and then nothing left it, the finite value entered
C30_Witness ==
  /\ window_call.op = "update"
  /\ window.validity = <<<<FALSE, TRUE, TRUE>>>>
  /\ window.slice[2] = "NaN"
  /\ window.slice[3] = "1.0"
  /\ window_call.start = 1
  /\ window_call.end = 3
  /\ window_call.last_end = 2
  /\ ~window_call.was_reset
  /\ window.null_count = 0
  /\ window.non_finite_count = 1

\* ----------------------------------------------------- set_cache_states
MaxBranches == 4

\* The columns of every scan of the plans
ScanSchema == <<"a", "b", "c">>

\* The predicates of the filters; leaf_names is aexpr_to_leaf_names
PredP == [expr |-> "p", leaf_names |-> {"a"}]
PredQ == [expr |-> "q", leaf_names |-> {"b"}]

\* The IR nodes of the plans; any node other than these four is a Union
IRScan == [ir |-> "Scan", columns |-> ScanSchema, predicates |-> {}]
IRCache(input, id) == [ir |-> "Cache", input |-> input, id |-> id]
IRFilter(input, predicate) == [ir |-> "Filter", input |-> input, predicate |-> predicate]
IRSimpleProjection(input, cols) == [ir |-> "SimpleProjection", input |-> input, columns |-> cols]
IRUnion(inputs) == [ir |-> "Union", inputs |-> inputs]

\* IR::default(), what Arena::take leaves behind
IRInvalid == [ir |-> "Invalid"]

\* What predicate and projection pushdown left above a cache, from the top
\* down: 0 marks the input, which is set when the arena is built
UpperShapes ==
  {<<>>,
   <<IRFilter(0, PredP)>>, <<IRFilter(0, PredQ)>>,
   <<IRSimpleProjection(0, <<"a">>)>>, <<IRSimpleProjection(0, <<"b">>)>>,
   <<IRFilter(0, PredP), IRSimpleProjection(0, <<"a">>)>>,
   <<IRFilter(0, PredQ), IRSimpleProjection(0, <<"b">>)>>,
   <<IRSimpleProjection(0, <<"b">>), IRFilter(0, PredP)>>}

\* The plans: a Union over branches, each a cache of a scan under its uppers
PlanInputs ==
  {p \in UNION {[1..n -> [upper : UpperShapes, id : {1, 2}]] : n \in {2, MaxBranches}} :
     \/ Len(p) = 2
     \/ <<p[1].id, p[2].id, p[3].id, p[4].id>> \in {<<1, 1, 2, 2>>, <<2, 1, 2, 1>>}}

\* The arena of a plan: node 1 is the Union, then branch by branch the
\* uppers, the cache and the scan
BranchBase(plan, b) == 1 + SumSeq([j \in 1..(b - 1) |-> Len(plan[j].upper) + 2])
CacheNode(plan, b) == BranchBase(plan, b) + Len(plan[b].upper) + 1
ScanNode(plan, b) == CacheNode(plan, b) + 1

BranchNodes(branch, base) ==
  [i \in 1..(Len(branch.upper) + 2) |->
     IF i <= Len(branch.upper) THEN [branch.upper[i] EXCEPT !.input = base + i + 1]
     ELSE IF i = Len(branch.upper) + 1 THEN IRCache(base + i + 1, branch.id)
     ELSE IRScan]

BuildArena(plan) ==
  <<IRUnion([b \in 1..Len(plan) |-> BranchBase(plan, b) + 1])>>
  \o Concat([b \in 1..Len(plan) |-> BranchNodes(plan[b], BranchBase(plan, b))])

\* IR::copy_inputs
copy_inputs(lp) ==
  IF lp.ir = "Union" THEN lp.inputs
  ELSE IF lp.ir \in {"Cache", "Filter", "SimpleProjection"} THEN <<lp.input>>
  ELSE <<>>

RECURSIVE schema(_, _)
\* IR::schema
schema(lp, arena) ==
  IF lp.ir \in {"Scan", "SimpleProjection"} THEN lp.columns
  ELSE IF lp.ir \in {"Cache", "Filter"} THEN schema(arena[lp.input], arena)
  ELSE <<>>

ToSet(q) == {q[i] : i \in 1..Len(q)}

\* get_upper_projections
get_upper_projections(parent) ==
  IF parent.ir = "SimpleProjection"
  THEN [names |-> ToSet(parent.columns), found_required_columns |-> TRUE, keep_going |-> FALSE]
  ELSE IF parent.ir = "Filter"
  THEN [names |-> parent.predicate.leaf_names, found_required_columns |-> FALSE,
        keep_going |-> TRUE]
  ELSE [names |-> {}, found_required_columns |-> FALSE, keep_going |-> FALSE]

\* get_upper_predicates
get_upper_predicates(parent) ==
  IF parent.ir = "Filter" THEN [predicates |-> <<parent.predicate>>, keep_going |-> FALSE]
  ELSE IF parent.ir = "SimpleProjection" THEN [predicates |-> <<>>, keep_going |-> TRUE]
  ELSE [predicates |-> <<>>, keep_going |-> FALSE]

RECURSIVE upper_projections(_, _)
\* the loop over the parents that calls get_upper_projections
upper_projections(arena, parents) ==
  IF parents = <<>>
  THEN [names |-> {}, found_required_columns |-> FALSE]
  ELSE LET r == get_upper_projections(arena[Head(parents)])
           up == IF r.keep_going THEN upper_projections(arena, Tail(parents))
                 ELSE [names |-> {}, found_required_columns |-> FALSE]
       IN  [names |-> r.names \cup up.names,
            found_required_columns |-> r.found_required_columns \/ up.found_required_columns]

RECURSIVE upper_predicates(_, _)
\* the loop over the parents that calls get_upper_predicates
upper_predicates(arena, parents) ==
  IF parents = <<>>
  THEN <<>>
  ELSE LET r == get_upper_predicates(arena[Head(parents)])
       IN  r.predicates \o (IF r.keep_going THEN upper_predicates(arena, Tail(parents)) ELSE <<>>)

RECURSIVE count_predicates(_, _)
\* *v.predicate_union.entry(pred).or_insert(0) += 1, for each predicate
count_predicates(predicate_union, predicates) ==
  IF predicates = <<>>
  THEN predicate_union
  ELSE LET pred == Head(predicates)
       IN  count_predicates(
             IF pred \in DOMAIN predicate_union
             THEN [predicate_union EXCEPT ![pred] = @ + 1]
             ELSE predicate_union @@ (pred :> 1),
             Tail(predicates))

\* Value::default()
ValueDefault ==
  [children |-> <<>>, parents |-> <<>>, cache_nodes |-> <<>>, names_union |-> {},
   predicate_union |-> <<>>]

\* What the first traversal does at a cache node that has a parent
visit_cache(arena, found, frame, lp) ==
  LET v == IF lp.id \in DOMAIN found THEN found[lp.id] ELSE ValueDefault
      parents == frame.parent[1] \o frame.parent[2]
      up == upper_projections(arena, parents)
      v1 == [v EXCEPT !.children = Append(@, lp.input),
                      !.parents = Append(@, frame.parent),
                      !.cache_nodes = Append(@, frame.current),
                      !.names_union =
                         @ \cup up.names
                           \cup (IF up.found_required_columns THEN {}
                                 ELSE ToSet(schema(lp, arena))),
                      !.predicate_union = count_predicates(@, upper_predicates(arena, parents))]
  IN  IF lp.id \in DOMAIN found
      THEN [found EXCEPT ![lp.id] = v1]
      ELSE found @@ (lp.id :> v1)

RECURSIVE first_traversal(_, _, _)
\* The first traversal: one frame of the stack per call
first_traversal(arena, stack, found) ==
  IF stack = <<>>
  THEN found
  ELSE LET frame == stack[Len(stack)]
           lp == arena[frame.current]
           inputs == copy_inputs(lp)
           found1 == IF lp.ir = "Cache" /\ frame.parent[1] # <<>>
                     THEN visit_cache(arena, found, frame, lp)
                     ELSE found
           frame1 == IF lp.ir = "Cache"
                     THEN [frame EXCEPT !.previous_cache =
                                           IF frame.cache_id # <<>> THEN frame.cache_id ELSE @,
                                        !.cache_id = <<lp.id>>]
                     ELSE frame
           frame2 == [frame1 EXCEPT !.parent = <<<<frame.current>>, frame.parent[1]>>]
       IN  first_traversal(
             arena,
             SubSeq(stack, 1, Len(stack) - 1)
               \o [i \in 1..Len(inputs) |-> [frame2 EXCEPT !.current = inputs[i]]],
             found1)

RECURSIVE push_projection(_, _, _)
\* ProjectionPushDown below the node it is started on: the columns asked for
\* (<<>> when all are) travel down to the scan and stop at a cache
push_projection(arena, node, acc) ==
  LET lp == arena[node]
  IN  IF lp.ir = "Scan"
      THEN IF acc = <<>> THEN arena
           ELSE [arena EXCEPT ![node].columns = SelectSeq(@, LAMBDA c : c \in acc[1])]
      ELSE IF lp.ir = "SimpleProjection"
      THEN push_projection(arena, lp.input, <<ToSet(lp.columns)>>)
      ELSE IF lp.ir = "Filter"
      THEN push_projection(arena, lp.input,
                           IF acc = <<>> THEN <<>>
                           ELSE <<acc[1] \cup lp.predicate.leaf_names>>)
      ELSE arena

\* ProjectionPushDown::optimize
proj_pd_optimize(lp, arena) ==
  IF lp.ir = "SimpleProjection"
  THEN [lp |-> lp, arena |-> push_projection(arena, lp.input, <<ToSet(lp.columns)>>)]
  ELSE IF lp.ir = "Filter"
  THEN [lp |-> lp, arena |-> push_projection(arena, lp.input, <<>>)]
  ELSE [lp |-> lp, arena |-> arena]

RECURSIVE push_predicates(_, _, _)
\* PredicatePushDown with block_at_cache(false) below the node it is started
\* on: the predicates travel through projections and caches into the scan,
\* and the filters they came from are taken out of the plan
push_predicates(arena, node, preds) ==
  LET lp == arena[node]
  IN  IF lp.ir = "Filter"
      THEN push_predicates(arena, lp.input, preds \cup {lp.predicate})
      ELSE IF lp.ir \in {"SimpleProjection", "Cache"}
      THEN LET r == push_predicates(arena, lp.input, preds)
           IN  [arena |-> [r.arena EXCEPT ![node].input = r.node], node |-> node]
      ELSE IF lp.ir = "Scan"
      THEN [arena |-> [arena EXCEPT ![node].predicates = @ \cup preds], node |-> node]
      ELSE [arena |-> arena, node |-> node]

\* PredicatePushDown::optimize
pred_pd_optimize(lp, arena) ==
  IF lp.ir = "Filter"
  THEN LET r == push_predicates(arena, lp.input, {lp.predicate})
       IN  [lp |-> r.arena[r.node], arena |-> r.arena]
  ELSE IF lp.ir \in {"SimpleProjection", "Cache"}
  THEN LET r == push_predicates(arena, lp.input, {})
       IN  [lp |-> [lp EXCEPT !.input = r.node], arena |-> r.arena]
  ELSE [lp |-> lp, arena |-> arena]

RECURSIVE top_parent(_, _, _)
\* The most top parent that is a FILTER or a projection, from node upwards
top_parent(arena, node, parents) ==
  IF parents = <<>> THEN node
  ELSE IF arena[Head(parents)].ir \in {"Filter", "SimpleProjection"}
  THEN top_parent(arena, Head(parents), Tail(parents))
  ELSE node

\* Arena::swap
swap(arena, a, b) == [arena EXCEPT ![a] = arena[b], ![b] = arena[a]]

RECURSIVE remove_caches(_, _, _, _)
\* The loop that removes the cache nodes of one cache id, from the i-th on
remove_caches(st, id, v, i) ==
  IF i > Len(v.children)
  THEN st
  ELSE LET cache == v.cache_nodes[i]
           swapped == swap(st.arena, v.children[i], cache)
           node == top_parent(swapped, cache, v.parents[i][1] \o v.parents[i][2])
           taken == [swapped EXCEPT ![node] = IRInvalid]
           proj == proj_pd_optimize(swapped[node], taken)
           pred == pred_pd_optimize(proj.lp, proj.arena)
       IN  remove_caches(
             [arena |-> [pred.arena EXCEPT ![node] = pred.lp],
              calls |-> st.calls
                          \o <<[id |-> id, pd |-> "proj", start |-> "parent", node |-> node],
                               [id |-> id, pd |-> "pred", start |-> "parent", node |-> node]>>],
             id, v, i + 1)

\* Arena::replace, for every node of a list
replace_all(arena, nodes, lp) ==
  [n \in DOMAIN arena |-> IF \E i \in 1..Len(nodes) : nodes[i] = n THEN lp ELSE arena[n]]

\* RUN PROJECTION PUSHDOWN
run_projection_pushdown(st, id, v) ==
  LET first_child == v.children[1]
      child_lp == st.arena[first_child]
      taken == [st.arena EXCEPT ![first_child] = IRInvalid]
      call == [id |-> id, pd |-> "proj", start |-> "child", node |-> first_child]
  IN  IF v.names_union # {}
      THEN LET projection == SelectSeq(schema(child_lp, taken), LAMBDA c : c \in v.names_union)
               new_child == Len(taken) + 1
               added == Append(taken, child_lp)
               r == proj_pd_optimize(IRSimpleProjection(new_child, projection), added)
               lp == IF r.lp.ir = "SimpleProjection"
                        /\ r.arena[r.lp.input].ir = "SimpleProjection"
                     THEN [r.lp EXCEPT !.input = r.arena[r.lp.input].input]
                     ELSE r.lp
           IN  [arena |-> replace_all(r.arena, v.children, lp), calls |-> Append(st.calls, call)]
      ELSE LET r == proj_pd_optimize(child_lp, taken)
           IN  [arena |-> replace_all(r.arena, v.children, r.lp),
                calls |-> Append(st.calls, call)]

\* get_filter_node
get_filter_node(parents, arena) ==
  LET flat == parents[1] \o parents[2]
      hits == {i \in 1..Len(flat) : arena[flat[i]].ir = "Filter"}
  IN  flat[CHOOSE i \in hits : \A j \in hits : i <= j]

\* allow_parent_predicate_pushdown
allow_parent_predicate_pushdown(v) ==
  /\ Cardinality(DOMAIN v.predicate_union) = 1
  /\ \A pred \in DOMAIN v.predicate_union : v.predicate_union[pred] = Len(v.children)

\* RUN PREDICATE PUSHDOWN
run_predicate_pushdown(st, id, v) ==
  IF allow_parent_predicate_pushdown(v)
  THEN LET node == get_filter_node(v.parents[1], st.arena)
           r == pred_pd_optimize(st.arena[node], [st.arena EXCEPT ![node] = IRInvalid])
           filters == [i \in 1..Len(v.parents) |->
                         IF i = 1 THEN node ELSE get_filter_node(v.parents[i], r.arena)]
       IN  [arena |-> replace_all(r.arena, filters, r.lp),
            calls |-> Append(st.calls,
                             [id |-> id, pd |-> "pred", start |-> "filter", node |-> node])]
  ELSE LET child == v.children[1]
           r == pred_pd_optimize(st.arena[child], [st.arena EXCEPT ![child] = IRInvalid])
       IN  [arena |-> replace_all(r.arena, v.children, r.lp),
            calls |-> Append(st.calls,
                             [id |-> id, pd |-> "pred", start |-> "child", node |-> child])]

RECURSIVE SortedIds(_)
\* The keys of the BTreeMap, in the order it iterates them
SortedIds(ids) ==
  IF ids = {} THEN <<>>
  ELSE LET least == CHOOSE i \in ids : \A j \in ids : i <= j
       IN  <<least>> \o SortedIds(ids \ {least})

\* set_cache_states is called on a plan
CacheInit ==
  /\ EncodeIdle
  /\ ApplyIdle
  /\ HotIdle
  /\ MomentIdle
  /\ cache_pc = "first_traversal"
  /\ cache_plan \in PlanInputs
  /\ lp_arena = BuildArena(cache_plan)
  /\ cache_schema_and_children = <<>>
  /\ cache_todo = <<>>
  /\ pd_calls = <<>>

\* The first traversal, from the root
FirstTraversal ==
  /\ cache_pc = "first_traversal"
  /\ LET found == first_traversal(
                    lp_arena,
                    <<[current |-> 1, cache_id |-> <<>>, parent |-> <<<<>>, <<>>>>,
                       previous_cache |-> <<>>]>>,
                    <<>>)
     IN  /\ cache_schema_and_children' = found
         /\ cache_todo' = SortedIds(DOMAIN found)
  /\ cache_pc' = "second_pass"
  /\ UNCHANGED <<lp_arena, pd_calls, cache_plan>>
  /\ UNCHANGED not_cache_vars

\* The second pass at a cache id whose predicates differ: the cache nodes
\* are removed and the function returns
RemoveCaches ==
  /\ cache_pc = "second_pass"
  /\ cache_todo # <<>>
  /\ LET id == Head(cache_todo)
         v == cache_schema_and_children[id]
     IN  /\ Cardinality(DOMAIN v.predicate_union) > 1
         /\ LET st == remove_caches([arena |-> lp_arena, calls |-> pd_calls], id, v, 1)
            IN  /\ lp_arena' = st.arena
                /\ pd_calls' = st.calls
  /\ cache_pc' = "done"
  /\ UNCHANGED <<cache_schema_and_children, cache_todo, cache_plan>>
  /\ UNCHANGED not_cache_vars

\* The second pass at a cache id that keeps its cache nodes
KeepCaches ==
  /\ cache_pc = "second_pass"
  /\ cache_todo # <<>>
  /\ LET id == Head(cache_todo)
         v == cache_schema_and_children[id]
     IN  /\ Cardinality(DOMAIN v.predicate_union) <= 1
         /\ LET projected == run_projection_pushdown(
                               [arena |-> lp_arena, calls |-> pd_calls], id, v)
                st == run_predicate_pushdown(projected, id, v)
            IN  /\ lp_arena' = st.arena
                /\ pd_calls' = st.calls
  /\ cache_todo' = Tail(cache_todo)
  /\ UNCHANGED <<cache_pc, cache_schema_and_children, cache_plan>>
  /\ UNCHANGED not_cache_vars

\* Ok(()) after the last cache id
CacheReturn ==
  /\ cache_pc = "second_pass"
  /\ cache_todo = <<>>
  /\ cache_pc' = "done"
  /\ UNCHANGED <<lp_arena, cache_schema_and_children, cache_todo, pd_calls, cache_plan>>
  /\ UNCHANGED not_cache_vars

CacheNext == FirstTraversal \/ RemoveCaches \/ KeepCaches \/ CacheReturn

CacheSpec == CacheInit /\ [][CacheNext]_vars

\* The predicate of the filter found directly above a cache with these uppers
PredicateAbove(upper) ==
  LET k == Len(upper)
  IN  IF k = 0 THEN {}
      ELSE IF upper[k].ir = "Filter" THEN {upper[k].predicate}
      ELSE IF k >= 2 /\ upper[k - 1].ir = "Filter" THEN {upper[k - 1].predicate}
      ELSE {}

\* The columns required above a cache with these uppers: those of the first
\* projection above it and of the filter under that projection, or all
RequiredAbove(upper) ==
  LET k == Len(upper)
  IN  IF k = 0 THEN ToSet(ScanSchema)
      ELSE IF upper[k].ir = "SimpleProjection" THEN ToSet(upper[k].columns)
      ELSE IF k >= 2 /\ upper[k - 1].ir = "SimpleProjection"
      THEN upper[k].predicate.leaf_names \cup ToSet(upper[k - 1].columns)
      ELSE ToSet(ScanSchema)

BranchesOf(id) == {b \in 1..Len(cache_plan) : cache_plan[b].id = id}

DistinctPredicates(id) == UNION {PredicateAbove(cache_plan[b].upper) : b \in BranchesOf(id)}

RequiredUnion(id) == UNION {RequiredAbove(cache_plan[b].upper) : b \in BranchesOf(id)}

\* The cache nodes of a smaller cache id were removed
RemovedEarlier(id) ==
  \E j \in DOMAIN cache_schema_and_children :
    j < id /\ Cardinality(DistinctPredicates(j)) > 1

\* The predicate pushdown calls made for a cache id
PredicateCalls(id) == SelectSeq(pd_calls, LAMBDA c : c.id = id /\ c.pd = "pred")

\* The cache nodes of id are removed or kept as the predicates above them say
KeptOrRemoved(id) ==
  IF Cardinality(DistinctPredicates(id)) > 1
  THEN \A b \in BranchesOf(id) : lp_arena[CacheNode(cache_plan, b)].ir = "Scan"
  ELSE /\ \A b \in BranchesOf(id) :
            lp_arena[CacheNode(cache_plan, b)] = IRCache(ScanNode(cache_plan, b), id)
       /\ Len(PredicateCalls(id)) = 1
       /\ LET call == PredicateCalls(id)[1]
          IN  IF /\ Cardinality(DistinctPredicates(id)) = 1
                 /\ \A b \in BranchesOf(id) : PredicateAbove(cache_plan[b].upper) # {}
              THEN /\ call.start = "filter"
                   /\ \E b \in BranchesOf(id) :
                        /\ call.node > BranchBase(cache_plan, b)
                        /\ call.node < CacheNode(cache_plan, b)
                        /\ cache_plan[b].upper[call.node - BranchBase(cache_plan, b)].ir = "Filter"
              ELSE /\ call.start = "child"
                   /\ \E b \in BranchesOf(id) : call.node = ScanNode(cache_plan, b)

\* C25: set_cache_states keeps or removes the cache nodes of one cache id as
\* a group: with more than one distinct predicate in the filters directly
\* above them every cache node of the id is removed, its input taking its
\* place; with at most one they are all kept, and predicate pushdown restarts
\* from the parent FILTER nodes only if that predicate sits above every cache
\* node of the id, otherwise from the cache inputs.
C25_KeptOrRemovedAsGroup ==
  cache_pc = "done" => \A id \in DOMAIN cache_schema_and_children : KeptOrRemoved(id)

\* The same for the cache ids up to the first one whose cache nodes are
\* removed, which is where set_cache_states returns
C25_KeptOrRemovedUntilReturn ==
  cache_pc = "done" =>
    \A id \in DOMAIN cache_schema_and_children : ~RemovedEarlier(id) => KeptOrRemoved(id)

RECURSIVE Reachable(_, _)
\* The nodes of the plan under node
Reachable(arena, node) ==
  LET inputs == copy_inputs(arena[node])
  IN  {node} \cup UNION {Reachable(arena, inputs[i]) : i \in 1..Len(inputs)}

RECURSIVE SubPlan(_, _)
\* The plan under node, as a value
SubPlan(arena, node) ==
  LET inputs == copy_inputs(arena[node])
  IN  [lp |-> arena[node], inputs |-> [i \in 1..Len(inputs) |-> SubPlan(arena, inputs[i])]]

\* The cache nodes of id in the plan
CachesOf(id) ==
  {n \in Reachable(lp_arena, 1) : lp_arena[n].ir = "Cache" /\ lp_arena[n].id = id}

\* The inputs of the cache nodes of id hold one optimized sub-plan that
\* projects the union of the required columns in schema order
SharedProjectedInput(id) ==
  /\ \E k \in 1..Len(pd_calls) : pd_calls[k].id = id /\ pd_calls[k].pd = "proj"
  /\ \A n, m \in CachesOf(id) :
       SubPlan(lp_arena, lp_arena[n].input) = SubPlan(lp_arena, lp_arena[m].input)
  /\ \A n \in CachesOf(id) :
       schema(lp_arena[lp_arena[n].input], lp_arena)
         = SelectSeq(ScanSchema, LAMBDA c : c \in RequiredUnion(id))

\* C26: after set_cache_states returns Ok, for every cache id collected by
\* the first traversal, whatever other cache ids the plan contains, all
\* inputs of the cache nodes of that id hold the same optimized sub-plan,
\* which projects the union of the columns required above any of those cache
\* nodes in the order of the input's schema (all columns when some cache has
\* no projection above it).
C26_SharedProjectedInput ==
  cache_pc = "done" => \A id \in DOMAIN cache_schema_and_children : SharedProjectedInput(id)

\* The same for the cache ids up to the first one whose cache nodes are removed
C26_SharedProjectedInputUntilReturn ==
  cache_pc = "done" =>
    \A id \in DOMAIN cache_schema_and_children : ~RemovedEarlier(id) => SharedProjectedInput(id)

====
